---------------------------- MODULE Spec2Model ----------------------------
(***************************************************************************)
(* Model of the I/O performance collection service of the car watchdog     *)
(* daemon (src/watchdog/server/src/IoPerfCollection.cpp).                  *)
(*                                                                         *)
(* The service owns one collection thread that runs a looper.  Public API  *)
(* calls (start, terminate, onBootFinished, startCustomCollection,         *)
(* endCustomCollection, dump) come from caller threads.  Every critical    *)
(* section of the source (Mutex::Autolock lock(mMutex)) is modelled by two *)
(* steps: the acquisition of mMutex and the body, which ends with the      *)
(* release.  The looper dequeues a message before the handler takes the    *)
(* mutex, so a dequeued message can be overtaken by an API call.           *)
(*                                                                         *)
(* Time is the looper's uptime (mHandlerLooper->now()), counted in units   *)
(* of kMinCollectionInterval.                                              *)
(***************************************************************************)
EXTENDS Integers, Sequences, FiniteSets, TLC

VARIABLES
    mCurrCollectionEvent,  \* current collection event (the mode)
    mCollectionThread,     \* "none" | "running" (joinable) | "joined"
    mBoottimeCollection,   \* CollectionInfo of BOOT_TIME
    mPeriodicCollection,   \* CollectionInfo of PERIODIC
    mCustomCollection,     \* CollectionInfo of CUSTOM
    mMessages,             \* the looper's queue, ordered by uptime
    mWake,                 \* a wake() of the looper not yet consumed
    mMutex,                \* "free" or the thread holding mMutex
    now,                   \* the looper's uptime
    enabled,               \* the collectors whose enabled() is true
    wpc,                   \* position of the collection thread
    curMsg,                \* the message the collection thread has dequeued
    firstMsg,              \* the first message the collection thread dequeued
    outcome,               \* what the handler that has just returned did
    pc,                    \* position of every caller thread
    args,                  \* arguments of the call a caller is in
    ret,                   \* result of the last call of every caller
    history,               \* per event, every record appended since its info was set
    entered,               \* the uptime the current event was entered at, and its passes since
    customCollections,     \* number of custom collections started so far
    report,                \* the records of the report the last call of every caller wrote
    config,                \* the intervals and the buffer size start() stores
    aborted,               \* std::terminate() was called
    numer,                 \* percentage: the numerator
    denom,                 \* percentage: the denominator
    percent,               \* percentage: the double returned, none before the call
    collector,             \* the collect*IoPerfDataLocked function that runs, or "none"
    usage,                 \* the UidIoUsage records of mUidIoStats->collect(), as iterated
    uidProcessStats,       \* the UidProcessStats of getUidProcessStats, as iterated
    visited,               \* how many records the loop has visited
    topNReads,             \* the candidate lists of the loops
    topNWrites,
    topNIoBlockedUids,
    topNMajorFaults,
    data,                  \* the lists converted to Uid/ProcessIoPerfData, none before
    mDataProcessors,       \* the registered data processors, in registration order
    failingProcessors,     \* the data processors whose collection callback returns an error
    dispatch,              \* the dispatch of one sample to the data processors
    mUidToPackageInfoMapping,  \* PackageInfoResolver: the cache, uid -> PackageInfo
    mVendorPackagePrefixes,    \* PackageInfoResolver: the vendor package prefixes
    mWatchdogServiceHelper,    \* PackageInfoResolver: "null" or the helper
    mRWMutex,                  \* "free", or the thread holding it (unique or shared)
    passwd,                    \* the native uids getpwuid knows
    rpc,                       \* position of the threads that call the resolver
    uids,                      \* the uids getPackageNamesForUids was called with
    updated,                   \* the requested uids cached when updatePackageInfos returned
    uidToPackageNameMapping    \* the map getPackageNamesForUids returns, none before

vars == <<mCurrCollectionEvent, mCollectionThread, mBoottimeCollection,
          mPeriodicCollection, mCustomCollection, mMessages, mWake, mMutex, now,
          enabled, wpc, curMsg, firstMsg, outcome, pc, args, ret, history, customCollections,
          report, config, aborted, entered, numer, denom, percent, collector, usage,
          uidProcessStats, visited, topNReads, topNWrites, topNIoBlockedUids,
          topNMajorFaults, data, mDataProcessors, failingProcessors,
          dispatch, mUidToPackageInfoMapping, mVendorPackagePrefixes,
          mWatchdogServiceHelper, mRWMutex, passwd, rpc, uids, updated,
          uidToPackageNameMapping>>

\* The state of the service.
serviceVars == <<mCurrCollectionEvent, mCollectionThread, mBoottimeCollection,
                 mPeriodicCollection, mCustomCollection, mMessages, mWake, mMutex, now,
                 enabled, wpc, curMsg, firstMsg, outcome, pc, args, ret, history,
                 customCollections, report, config, aborted, entered>>
infoVars == <<mBoottimeCollection, mPeriodicCollection, mCustomCollection, history, entered>>
looperVars == <<mMessages, mWake>>
workerVars == <<wpc, curMsg, firstMsg, outcome>>
callVars == <<pc, args, ret, customCollections, report>>
\* The state of percentage and of the top-N loops, taken on their own.
percentageVars == <<numer, denom, percent>>
topNVars == <<collector, usage, uidProcessStats, visited, topNReads, topNWrites,
              topNIoBlockedUids, topNMajorFaults, data>>
\* What no operation of the service changes: what is fixed when the service is
\* constructed, and the state of the functions taken on their own.
\* The state of the dispatch of a sample to the data processors, taken on its own.
dispatchVars == <<mDataProcessors, failingProcessors, dispatch>>
\* The state of the package info resolver and of the threads that call it.
resolverVars == <<mUidToPackageInfoMapping, mVendorPackagePrefixes, mWatchdogServiceHelper,
                  mRWMutex, passwd, rpc, uids, updated, uidToPackageNameMapping>>
envVars == <<enabled, config, percentageVars, topNVars, dispatchVars, resolverVars>>

---------------------------------------------------------------------------
(* Bounds of the model *)

\* The uptime stops advancing at MaxTime.
MaxTime == 1
\* The intervals and the maximum durations startCustomCollection is called with;
\* 0 is below kMinCollectionInterval.
CustomIntervals == {0, 1}
CustomDurations == {0, 1, 2}
\* At most MaxCustomCollections custom collections are started (a call that is
\* rejected starts none).
MaxCustomCollections == 1

(* Program constants.  The intervals are in units of kMinCollectionInterval; *)
(* the periodic buffer size is scaled down so that the cache fills.          *)
kMinCollectionInterval == 1
kBoottimeCollectionInterval == 1
kPeriodicCollectionInterval == 2
kPeriodicCollectionBufferSize == 1
\* std::numeric_limits<std::size_t>::max(); only compared with record counts.
kSizeMax == 2147483647

\* The collectors that opened their files at construction: none, one or all.
EnabledChoices == {{}, {"ProcStat"}, {"UidIoStats", "ProcStat", "ProcPidStat"}}

Callers == {"c1", "c2"}
Worker == "worker"
Collectors == {"UidIoStats", "ProcStat", "ProcPidStat"}
CollectionEvents == {"BOOT_TIME", "PERIODIC", "CUSTOM"}
END_CUSTOM_COLLECTION == "END_CUSTOM_COLLECTION"

---------------------------------------------------------------------------
(* CollectionInfo and the looper *)

\* A value-initialised CollectionInfo ({}).
EmptyInfo ==
    [interval |-> 0, maxCacheSize |-> 0, lastCollectionUptime |-> 0, records |-> <<>>]

InfoOf(event) ==
    CASE event = "BOOT_TIME" -> mBoottimeCollection
      [] event = "PERIODIC" -> mPeriodicCollection
      [] event = "CUSTOM" -> mCustomCollection

\* Looper::sendMessageAtTime: the message goes after every message that is due
\* no later than it.
SendMessageAtTime(q, uptime, what) ==
    LET n == Cardinality({i \in 1..Len(q) : q[i].uptime <= uptime})
    IN  SubSeq(q, 1, n) \o <<[what |-> what, uptime |-> uptime]>> \o SubSeq(q, n + 1, Len(q))

\* Looper::sendMessage: due at once.
SendMessage(q, what) == SendMessageAtTime(q, now, what)

\* Looper::removeMessages(handler): every message of the one handler goes.
RemoveMessages(q) == <<>>

HeadDue == Len(mMessages) > 0 /\ mMessages[1].uptime <= now

wake_Lost(w) == w

\* mHandlerLooper->wake(): the looper is woken, whether or not a wake was pending.
wake(w) == TRUE

joinable == mCollectionThread = "running"

ModeEntered_Cleared(info) == [info EXCEPT !.lastCollectionUptime = now, !.records = <<>>]

\* info.lastCollectionUptime = mHandlerLooper->now(), when the event of info
\* becomes the current one.
ModeEntered(info) == [info EXCEPT !.lastCollectionUptime = now]

---------------------------------------------------------------------------
(* mMutex *)

Lock_NoWait(t) == mMutex' = t

Lock(t) == mMutex = "free" /\ mMutex' = t
Unlock(t) == mMutex = t /\ mMutex' = "free"

\* The result a call returned, with the call it is the result of.
Result(call, r) == [call |-> call, result |-> r]
NoResult == Result("none", "none")

\* The result of a startCustomCollection() whose interval or maximum duration is
\* below kMinCollectionInterval: INVALID_OPERATION, as when the event is not
\* PERIODIC, with another message.
InvalidArguments ==
    [call |-> "startCustomCollection", result |-> "INVALID_OPERATION",
     message |-> "Collection interval and maximum duration must be >= "]

\* The call a position of a caller belongs to.
CallOf(label) ==
    CASE label \in {"start", "start_thread"} -> "start"
      [] label \in {"terminate", "terminate_remove", "terminate_wake", "terminate_join"} ->
            "terminate"
      [] label = "idle" -> "startCustomCollection"  \* rejected before it takes mMutex
      [] OTHER -> label

TypeOK ==
    /\ mCurrCollectionEvent \in {"INIT", "TERMINATED"} \cup CollectionEvents
    /\ mCollectionThread \in {"none", "running", "joined"}
    /\ mMutex \in {"free", Worker} \cup Callers
    /\ now \in Nat
    /\ enabled \subseteq Collectors
    /\ aborted \in BOOLEAN
    /\ mWake \in BOOLEAN

\* The intervals and the buffer size of the build.
DefaultConfig ==
    [boottimeInterval |-> kBoottimeCollectionInterval,
     periodicInterval |-> kPeriodicCollectionInterval,
     periodicBufferSize |-> kPeriodicCollectionBufferSize]

\* The configurations a build can store: the build's, or the build's with an
\* interval or the buffer size 0.
ConfigChoices ==
    {DefaultConfig,
     [DefaultConfig EXCEPT !.boottimeInterval = 0],
     [DefaultConfig EXCEPT !.periodicBufferSize = 0]}

\* percentage is not being called.
NoPercentage == numer = 0 /\ denom = 0 /\ percent = <<>>

\* No collect*IoPerfDataLocked function is taken on its own.
NoTopN ==
    /\ collector = "none"
    /\ usage = <<>>
    /\ uidProcessStats = <<>>
    /\ visited = 0
    /\ topNReads = <<>>
    /\ topNWrites = <<>>
    /\ topNIoBlockedUids = <<>>
    /\ topNMajorFaults = <<>>
    /\ data = <<>>

\* No sample is being dispatched.
NoDispatchState ==
    [event |-> "none", next |-> 0, invoked |-> <<>>, logged |-> <<>>, result |-> "none"]

\* No data processor is registered.
NoDispatch ==
    mDataProcessors = <<>> /\ failingProcessors = {} /\ dispatch = NoDispatchState

\* The resolver as constructed, with no thread calling it.
NoResolver ==
    /\ mUidToPackageInfoMapping = <<>>
    /\ mVendorPackagePrefixes = {}
    /\ mWatchdogServiceHelper = "null"
    /\ mRWMutex = "free"
    /\ passwd = {}
    /\ rpc = [getter |-> "idle", setter |-> "idle"]
    /\ uids = <<>>
    /\ updated = {}
    /\ uidToPackageNameMapping = <<>>

\* The service as constructed, before start().
Constructed ==
    /\ mCurrCollectionEvent = "INIT"
    /\ mCollectionThread = "none"
    /\ mBoottimeCollection = EmptyInfo
    /\ mPeriodicCollection = EmptyInfo
    /\ mCustomCollection = EmptyInfo
    /\ mMessages = <<>>
    /\ mWake = FALSE
    /\ mMutex = "free"
    /\ now = 0
    /\ enabled \in EnabledChoices
    /\ wpc = "none"
    /\ curMsg = "none"
    /\ firstMsg = "none"
    /\ outcome = "none"
    /\ pc = [c \in Callers |-> "idle"]
    /\ args = [c \in Callers |-> <<>>]
    /\ ret = [c \in Callers |-> NoResult]
    /\ history = [e \in CollectionEvents |-> <<>>]
    /\ entered = [uptime |-> 0, ticks |-> 0]
    /\ customCollections = 0
    /\ report = [c \in Callers |-> <<>>]
    /\ aborted = FALSE

Init ==
    /\ Constructed
    /\ config = DefaultConfig
    /\ NoPercentage
    /\ NoTopN
    /\ NoDispatch
    /\ NoResolver

\* The service built with any of the configurations.
InitConfig ==
    /\ Constructed
    /\ config \in ConfigChoices
    /\ NoPercentage
    /\ NoTopN
    /\ NoDispatch
    /\ NoResolver

\* The uptime advances whatever the threads do.
Advance ==
    /\ ~aborted
    /\ now < MaxTime
    /\ now' = now + 1
    /\ UNCHANGED <<mCurrCollectionEvent, mCollectionThread, infoVars, looperVars, mMutex,
                   envVars, workerVars, callVars, aborted>>

---------------------------------------------------------------------------
(* Public API, called from the caller threads *)

\* A caller enters a call by taking mMutex (Mutex::Autolock lock(mMutex)).
Enter(c, label, a) ==
    /\ ~aborted
    /\ pc[c] = "idle"
    /\ Lock(c)
    /\ pc' = [pc EXCEPT ![c] = label]
    /\ args' = [args EXCEPT ![c] = a]
    /\ ret' = [ret EXCEPT ![c] = NoResult]
    /\ report' = [report EXCEPT ![c] = <<>>]
    /\ UNCHANGED <<mCurrCollectionEvent, mCollectionThread, infoVars, looperVars, now,
                   envVars, workerVars, customCollections, aborted>>

\* A call returns r: the caller is idle again.
Returns(c, r) ==
    /\ pc' = [pc EXCEPT ![c] = "idle"]
    /\ ret' = [ret EXCEPT ![c] = Result(CallOf(pc[c]), r)]
    /\ args' = [args EXCEPT ![c] = <<>>]

Return(c, r) == Returns(c, r) /\ UNCHANGED <<customCollections, report>>

StartAllowed_NoJoinable == mCurrCollectionEvent = "INIT"

StartAllowed_AnyMode == ~joinable

\* The guard of start().
StartAllowed == mCurrCollectionEvent = "INIT" /\ ~joinable

start_lock(c) == Enter(c, "start", <<>>)

\* The first block of start(): the check and the collection infos.
start(c) ==
    /\ ~aborted
    /\ pc[c] = "start"
    /\ Unlock(c)
    /\ IF ~StartAllowed
       THEN /\ Return(c, "INVALID_OPERATION")
            /\ UNCHANGED infoVars
       ELSE /\ mBoottimeCollection' =
                    [interval |-> config.boottimeInterval, maxCacheSize |-> kSizeMax,
                     lastCollectionUptime |-> 0, records |-> <<>>]
            /\ mPeriodicCollection' =
                    [interval |-> config.periodicInterval,
                     maxCacheSize |-> config.periodicBufferSize,
                     lastCollectionUptime |-> 0, records |-> <<>>]
            /\ history' = [history EXCEPT !["BOOT_TIME"] = <<>>, !["PERIODIC"] = <<>>]
            /\ pc' = [pc EXCEPT ![c] = "start_thread"]
            /\ UNCHANGED <<mCustomCollection, entered, args, ret, customCollections,
                           report>>
    /\ UNCHANGED <<mCurrCollectionEvent, mCollectionThread, looperVars, now, envVars,
                   workerVars, aborted>>

\* mCollectionThread = std::thread(...): assigning to a joinable std::thread calls
\* std::terminate().
start_thread(c) ==
    /\ ~aborted
    /\ pc[c] = "start_thread"
    /\ IF joinable
       THEN /\ aborted' = TRUE
            /\ UNCHANGED <<mCollectionThread, wpc, callVars>>
       ELSE /\ mCollectionThread' = "running"
            /\ wpc' = "created"
            /\ Return(c, "OK")
            /\ UNCHANGED aborted
    /\ UNCHANGED <<mCurrCollectionEvent, infoVars, looperVars, mMutex, now, envVars, curMsg,
                   firstMsg, outcome>>

terminate_lock(c) == Enter(c, "terminate", <<>>)

\* The locked block of terminate().
terminate(c) ==
    /\ ~aborted
    /\ pc[c] = "terminate"
    /\ Unlock(c)
    /\ IF mCurrCollectionEvent = "TERMINATED"
       THEN /\ Return(c, "void")
            /\ UNCHANGED mCurrCollectionEvent
       ELSE /\ mCurrCollectionEvent' = "TERMINATED"
            /\ pc' = [pc EXCEPT ![c] = "terminate_remove"]
            /\ UNCHANGED <<args, ret, customCollections, report>>
    /\ UNCHANGED <<mCollectionThread, infoVars, looperVars, now, envVars, workerVars,
                   aborted>>

\* if (mCollectionThread.joinable()) { mHandlerLooper->removeMessages(this);
terminate_remove(c) ==
    /\ ~aborted
    /\ pc[c] = "terminate_remove"
    /\ IF joinable
       THEN /\ mMessages' = RemoveMessages(mMessages)
            /\ pc' = [pc EXCEPT ![c] = "terminate_wake"]
            /\ UNCHANGED <<args, ret, customCollections, report>>
       ELSE /\ Return(c, "void")
            /\ UNCHANGED mMessages
    /\ UNCHANGED <<mCurrCollectionEvent, mCollectionThread, infoVars, mWake, mMutex, now,
                   envVars, workerVars, aborted>>

\* mHandlerLooper->wake();
terminate_wake(c) ==
    /\ ~aborted
    /\ pc[c] = "terminate_wake"
    /\ mWake' = wake(mWake)
    /\ pc' = [pc EXCEPT ![c] = "terminate_join"]
    /\ UNCHANGED <<mCurrCollectionEvent, mCollectionThread, infoVars, mMessages, mMutex,
                   now, envVars, workerVars, args, ret, customCollections, report, aborted>>

\* mCollectionThread.join(): blocks until the collection thread has exited.
terminate_join(c) ==
    /\ ~aborted
    /\ pc[c] = "terminate_join"
    /\ wpc = "exited"
    /\ mCollectionThread' = "joined"
    /\ Return(c, "void")
    /\ UNCHANGED <<mCurrCollectionEvent, infoVars, looperVars, mMutex, now, envVars,
                   workerVars, aborted>>

BootFinishedAllowed_AnyMode == mCurrCollectionEvent # "TERMINATED"

BootFinishedAllowed_OrPeriodic == mCurrCollectionEvent \in {"BOOT_TIME", "PERIODIC"}

\* The guard of onBootFinished().
BootFinishedAllowed == mCurrCollectionEvent = "BOOT_TIME"

BootFinishedMessages_NoRemove(q) == SendMessage(q, "PERIODIC")

\* onBootFinished: removeMessages(this), then sendMessage(this, PERIODIC).
BootFinishedMessages(q) == SendMessage(RemoveMessages(q), "PERIODIC")

onBootFinished_lock(c) == Enter(c, "onBootFinished", <<>>)

onBootFinished(c) ==
    /\ ~aborted
    /\ pc[c] = "onBootFinished"
    /\ Unlock(c)
    /\ IF ~BootFinishedAllowed
       THEN /\ Return(c, "INVALID_OPERATION")
            /\ UNCHANGED <<mCurrCollectionEvent, mPeriodicCollection, entered, mMessages>>
       ELSE /\ mCurrCollectionEvent' = "PERIODIC"
            /\ mPeriodicCollection' = ModeEntered(mPeriodicCollection)
            /\ entered' = [uptime |-> now, ticks |-> 0]
            /\ mMessages' = BootFinishedMessages(mMessages)
            /\ Return(c, "OK")
    /\ UNCHANGED <<mCollectionThread, mBoottimeCollection, mCustomCollection, history,
                   mWake, now, envVars, workerVars, aborted>>

CustomStartAllowed_AnyMode == mCurrCollectionEvent # "TERMINATED"

\* The guard of startCustomCollection().
CustomStartAllowed == mCurrCollectionEvent = "PERIODIC"

CustomStartMessages_NoGuard(q, maxDuration) == SendMessage(RemoveMessages(q), "CUSTOM")

CustomStartMessages_KeepTicks(q, maxDuration) ==
    SendMessage(SendMessageAtTime(q, now + maxDuration, END_CUSTOM_COLLECTION), "CUSTOM")

\* startCustomCollection: removeMessages(this), the END_CUSTOM_COLLECTION message at
\* now + maxDuration, then sendMessage(this, CUSTOM).
CustomStartMessages(q, maxDuration) ==
    SendMessage(
        SendMessageAtTime(RemoveMessages(q), now + maxDuration, END_CUSTOM_COLLECTION),
        "CUSTOM")

CustomArgumentsInvalid_DurationOnly(interval, maxDuration) ==
    maxDuration < kMinCollectionInterval

\* The argument check of startCustomCollection().
CustomArgumentsInvalid(interval, maxDuration) ==
    interval < kMinCollectionInterval \/ maxDuration < kMinCollectionInterval

\* startCustomCollection checks its arguments before it takes mMutex.
startCustomCollection_args(c, interval, maxDuration) ==
    /\ ~aborted
    /\ pc[c] = "idle"
    /\ CustomArgumentsInvalid(interval, maxDuration)
    /\ ret' = [ret EXCEPT ![c] = InvalidArguments]
    /\ report' = [report EXCEPT ![c] = <<>>]
    /\ UNCHANGED <<pc, args, customCollections>>
    /\ UNCHANGED <<mCurrCollectionEvent, mCollectionThread, infoVars, looperVars, mMutex,
                   now, envVars, workerVars, aborted>>

startCustomCollection_lock(c, interval, maxDuration) ==
    /\ ~CustomArgumentsInvalid(interval, maxDuration)
    /\ customCollections < MaxCustomCollections \/ ~CustomStartAllowed
    /\ Enter(c, "startCustomCollection", <<interval, maxDuration>>)

startCustomCollection(c) ==
    /\ ~aborted
    /\ pc[c] = "startCustomCollection"
    /\ Unlock(c)
    /\ IF ~CustomStartAllowed
       THEN /\ Return(c, "INVALID_OPERATION")
            /\ UNCHANGED <<mCurrCollectionEvent, mCustomCollection, history, entered,
                           mMessages>>
       ELSE /\ mCustomCollection' =
                    [interval |-> args[c][1], maxCacheSize |-> kSizeMax,
                     lastCollectionUptime |-> now, records |-> <<>>]
            /\ history' = [history EXCEPT !["CUSTOM"] = <<>>]
            /\ entered' = [uptime |-> now, ticks |-> 0]
            /\ mMessages' = CustomStartMessages(mMessages, args[c][2])
            /\ mCurrCollectionEvent' = "CUSTOM"
            /\ customCollections' = customCollections + 1
            /\ Returns(c, "OK")
            /\ UNCHANGED report
    /\ UNCHANGED <<mCollectionThread, mBoottimeCollection, mPeriodicCollection, mWake, now,
                   envVars, workerVars, aborted>>

CustomEndAllowed_AnyMode == mCurrCollectionEvent # "TERMINATED"

\* The guard of endCustomCollection(), and of the END_CUSTOM_COLLECTION message.
CustomEndAllowed == mCurrCollectionEvent = "CUSTOM"

CustomEndMessages_KeepGuard(q) == SendMessage(q, END_CUSTOM_COLLECTION)

CustomEndMessages_NoSwitch(q) == RemoveMessages(q)

\* endCustomCollection: removeMessages(this), then
\* sendMessage(this, END_CUSTOM_COLLECTION).
CustomEndMessages(q) == SendMessage(RemoveMessages(q), END_CUSTOM_COLLECTION)

CustomReport_Cleared(info) == <<>>

\* toString(mCustomCollection): the records the report is written from.
CustomReport(info) == info.records

endCustomCollection_lock(c) == Enter(c, "endCustomCollection", <<>>)

\* The report is written to fd after the switch message is posted; a write may fail.
endCustomCollection(c) ==
    /\ ~aborted
    /\ pc[c] = "endCustomCollection"
    /\ Unlock(c)
    /\ IF ~CustomEndAllowed
       THEN /\ Return(c, "INVALID_OPERATION")
            /\ UNCHANGED mMessages
       ELSE /\ mMessages' = CustomEndMessages(mMessages)
            /\ \/ /\ Returns(c, "OK")
                  /\ report' = [report EXCEPT ![c] = CustomReport(mCustomCollection)]
               \/ /\ Returns(c, "FAILED_TRANSACTION")
                  /\ UNCHANGED report
            /\ UNCHANGED customCollections
    /\ UNCHANGED <<mCurrCollectionEvent, mCollectionThread, infoVars, mWake, now, envVars,
                   workerVars, aborted>>

dumpCollection_lock(c) == Enter(c, "dumpCollection", <<>>)

\* dump() with no arguments: reads the boot-time and the periodic report.
dumpCollection(c) ==
    /\ ~aborted
    /\ pc[c] = "dumpCollection"
    /\ Unlock(c)
    /\ \E r \in {"OK", "FAILED_TRANSACTION"} : Return(c, r)
    /\ UNCHANGED <<mCurrCollectionEvent, mCollectionThread, infoVars, looperVars, now,
                   envVars, workerVars, aborted>>

---------------------------------------------------------------------------
(* The collection thread *)

FirstBootMessage_Delayed(q) ==
    SendMessageAtTime(q, now + kBoottimeCollectionInterval, "BOOT_TIME")

\* The thread's lambda: mHandlerLooper->sendMessage(this, CollectionEvent::BOOT_TIME).
FirstBootMessage(q) == SendMessage(q, "BOOT_TIME")

\* The first block of the thread's lambda takes mMutex.
thread_lock ==
    /\ ~aborted
    /\ wpc = "created"
    /\ Lock(Worker)
    /\ wpc' = "thread"
    /\ UNCHANGED <<mCurrCollectionEvent, mCollectionThread, infoVars, looperVars, now,
                   envVars, curMsg, firstMsg, outcome, callVars, aborted>>

\* The first block of the thread's lambda: INIT -> BOOT_TIME and the first message.
thread ==
    /\ ~aborted
    /\ wpc = "thread"
    /\ Unlock(Worker)
    /\ IF mCurrCollectionEvent # "INIT"
       THEN /\ wpc' = "exited"
            /\ UNCHANGED <<mCurrCollectionEvent, mBoottimeCollection, entered, mMessages>>
       ELSE /\ mCurrCollectionEvent' = "BOOT_TIME"
            /\ mBoottimeCollection' = ModeEntered(mBoottimeCollection)
            /\ entered' = [uptime |-> now, ticks |-> 0]
            /\ mMessages' = FirstBootMessage(mMessages)
            /\ wpc' = "epoll"
    /\ UNCHANGED <<mCollectionThread, mPeriodicCollection, mCustomCollection, history,
                   mWake, now, envVars, curMsg, firstMsg, outcome, callVars, aborted>>

\* The looper takes the first message off the queue and calls handleMessage.
Deliver ==
    /\ curMsg' = mMessages[1].what
    /\ firstMsg' = IF firstMsg = "none" THEN mMessages[1].what ELSE firstMsg
    /\ mMessages' = Tail(mMessages)
    /\ wpc' = "handleMessage"

\* pollAll(-1) blocked in the looper: it returns to the thread's loop when the looper
\* was woken and no message is due, and delivers the first due message otherwise.
pollAll ==
    /\ ~aborted
    /\ wpc = "epoll"
    /\ HeadDue \/ mWake
    /\ mWake' = FALSE
    /\ IF HeadDue
       THEN Deliver
       ELSE /\ wpc' = "loop"
            /\ UNCHANGED <<curMsg, firstMsg, mMessages>>
    /\ UNCHANGED <<mCurrCollectionEvent, mCollectionThread, infoVars, mMutex, now, envVars,
                   outcome, callVars, aborted>>

\* After a handler returned (its message and its outcome are gone) the looper
\* delivers the next due message, or polls again.
pollNext ==
    /\ ~aborted
    /\ wpc = "polled"
    /\ IF HeadDue
       THEN Deliver
       ELSE /\ wpc' = "epoll"
            /\ curMsg' = "none"
            /\ UNCHANGED <<firstMsg, mMessages>>
    /\ outcome' = "none"
    /\ UNCHANGED <<mCurrCollectionEvent, mCollectionThread, infoVars, mWake, mMutex, now,
                   envVars, callVars, aborted>>

\* while (isCollectionActive) { pollAll; lock; isCollectionActive = ... }: the lock.
loop_lock ==
    /\ ~aborted
    /\ wpc = "loop"
    /\ Lock(Worker)
    /\ wpc' = "loop_locked"
    /\ UNCHANGED <<mCurrCollectionEvent, mCollectionThread, infoVars, looperVars, now,
                   envVars, curMsg, firstMsg, outcome, callVars, aborted>>

\* isCollectionActive = mCurrCollectionEvent != TERMINATED;
loop ==
    /\ ~aborted
    /\ wpc = "loop_locked"
    /\ Unlock(Worker)
    /\ wpc' = IF mCurrCollectionEvent # "TERMINATED" THEN "epoll" ELSE "exited"
    /\ UNCHANGED <<mCurrCollectionEvent, mCollectionThread, infoVars, looperVars, now,
                   envVars, curMsg, firstMsg, outcome, callVars, aborted>>

\* handleMessage: the handler of the dequeued message takes mMutex
\* (processCollectionEvent, or the END_CUSTOM_COLLECTION case).
handleMessage_lock ==
    /\ ~aborted
    /\ wpc = "handleMessage"
    /\ Lock(Worker)
    /\ wpc' = IF curMsg = END_CUSTOM_COLLECTION THEN "endCustom" ELSE "processCollectionEvent"
    /\ UNCHANGED <<mCurrCollectionEvent, mCollectionThread, infoVars, looperVars, now,
                   envVars, curMsg, firstMsg, outcome, callVars, aborted>>

EventIsCurrent_NoCheck(event) == TRUE

\* The stale-message check of processCollectionEvent.
EventIsCurrent(event) == mCurrCollectionEvent = event

ConfigError_Never(info) == FALSE

\* The configuration checks of processCollectionEvent.
ConfigError(info) == info.maxCacheSize = 0 \/ info.interval < kMinCollectionInterval

CollectFails_IgnoresDisabled(failing) == enabled \cap failing # {}

CollectFails_AnyDisabled(failing) == enabled # Collectors \/ enabled \cap failing # {}

CollectFails_Tolerant(failing) == enabled = {} \/ enabled \subseteq failing

\* collectLocked fails when no collector is enabled, or when the collect() of an
\* enabled collector fails (failing: the collectors whose collect() fails now).
CollectFails(failing) == enabled = {} \/ enabled \cap failing # {}

\* The overflow check of collectLocked.
CacheOverflow(info) == Len(info.records) > info.maxCacheSize

\* collectLocked: erase the oldest record on overflow, then append the new one.
AppendRecord(info, record) ==
    [info EXCEPT !.records =
        Append(IF CacheOverflow(info) THEN Tail(info.records) ELSE info.records, record)]

\* The record of one collection pass; id numbers the passes of the event.
NewRecord(event) == [id |-> Len(history[event]) + 1, collectors |-> enabled]

\* info->lastCollectionUptime += info->interval.count();
Rescheduled_FromNow(info) ==
    [info EXCEPT !.lastCollectionUptime = now + info.interval]

Rescheduled(info) ==
    [info EXCEPT !.lastCollectionUptime = info.lastCollectionUptime + info.interval]

SkipMessage_ReturnsError ==
    /\ wpc' = "failed"
    /\ outcome' = "error"
    /\ UNCHANGED <<infoVars, mMessages>>

\* A stale message: processCollectionEvent logs a warning and returns success.
SkipMessage ==
    /\ wpc' = "polled"
    /\ outcome' = "skipped"
    /\ UNCHANGED <<infoVars, mMessages>>

\* processCollectionEvent returns an Error: handleMessage goes on to terminate.
ReturnError ==
    /\ wpc' = "failed"
    /\ outcome' = "error"
    /\ UNCHANGED <<infoVars, mMessages>>

SetInfo(event, info) ==
    /\ mBoottimeCollection' = IF event = "BOOT_TIME" THEN info ELSE mBoottimeCollection
    /\ mPeriodicCollection' = IF event = "PERIODIC" THEN info ELSE mPeriodicCollection
    /\ mCustomCollection' = IF event = "CUSTOM" THEN info ELSE mCustomCollection

\* processCollectionEvent(event, info) with collectLocked(info), under mMutex.
processCollectionEvent ==
    /\ ~aborted
    /\ wpc = "processCollectionEvent"
    /\ Unlock(Worker)
    /\ LET event == curMsg
           info == InfoOf(event)
       IN  IF ~EventIsCurrent(event)
           THEN SkipMessage
           ELSE IF ConfigError(info)
           THEN ReturnError
           ELSE \E failing \in SUBSET Collectors :
                IF CollectFails(failing)
                THEN ReturnError
                ELSE LET next == Rescheduled(AppendRecord(info, NewRecord(event)))
                     IN  /\ SetInfo(event, next)
                         /\ history' = [history EXCEPT
                                          ![event] = Append(@, NewRecord(event))]
                         /\ entered' = [entered EXCEPT !.ticks = @ + 1]
                         /\ mMessages' =
                                SendMessageAtTime(mMessages, next.lastCollectionUptime, event)
                         /\ wpc' = "polled"
                         /\ outcome' = "collected"
    /\ UNCHANGED <<mCurrCollectionEvent, mCollectionThread, mWake, now, envVars, curMsg,
                   firstMsg, callVars, aborted>>

EndCustomMessages_KeepTicks(q) == SendMessage(q, "PERIODIC")

EndCustomMessages_Delayed(q) ==
    SendMessageAtTime(RemoveMessages(q), now + kPeriodicCollectionInterval, "PERIODIC")

\* END_CUSTOM_COLLECTION: removeMessages(this), then sendMessage(this, PERIODIC).
EndCustomMessages(q) == SendMessage(RemoveMessages(q), "PERIODIC")

\* handleMessage, case END_CUSTOM_COLLECTION, under mMutex.
endCustom ==
    /\ ~aborted
    /\ wpc = "endCustom"
    /\ Unlock(Worker)
    /\ wpc' = "polled"
    /\ IF ~CustomEndAllowed
       THEN /\ outcome' = "skipped"
            /\ UNCHANGED <<mCurrCollectionEvent, infoVars, mMessages>>
       ELSE /\ mCustomCollection' = EmptyInfo
            /\ history' = [history EXCEPT !["CUSTOM"] = <<>>]
            /\ mMessages' = EndCustomMessages(mMessages)
            /\ mCurrCollectionEvent' = "PERIODIC"
            /\ mPeriodicCollection' = ModeEntered(mPeriodicCollection)
            /\ entered' = [uptime |-> now, ticks |-> 0]
            /\ outcome' = "switched"
            /\ UNCHANGED mBoottimeCollection
    /\ UNCHANGED <<mCollectionThread, mWake, now, envVars, curMsg, firstMsg, callVars,
                   aborted>>

\* handleMessage, if (!result): the handler takes mMutex again.
failed_lock ==
    /\ ~aborted
    /\ wpc = "failed"
    /\ Lock(Worker)
    /\ wpc' = "failed_locked"
    /\ UNCHANGED <<mCurrCollectionEvent, mCollectionThread, infoVars, looperVars, now,
                   envVars, curMsg, firstMsg, outcome, callVars, aborted>>

\* handleMessage, if (!result): TERMINATED, removeMessages, wake.
failed ==
    /\ ~aborted
    /\ wpc = "failed_locked"
    /\ Unlock(Worker)
    /\ mCurrCollectionEvent' = "TERMINATED"
    /\ mMessages' = RemoveMessages(mMessages)
    /\ mWake' = wake(mWake)
    /\ wpc' = "polled"
    /\ outcome' = "terminated"
    /\ UNCHANGED <<mCollectionThread, infoVars, now, envVars, curMsg, firstMsg, callVars,
                   aborted>>

---------------------------------------------------------------------------

Call(c) ==
    \/ start_lock(c) \/ start(c) \/ start_thread(c)
    \/ terminate_lock(c) \/ terminate(c) \/ terminate_remove(c)
    \/ terminate_wake(c) \/ terminate_join(c)
    \/ onBootFinished_lock(c) \/ onBootFinished(c)
    \/ \E interval \in CustomIntervals, maxDuration \in CustomDurations :
            \/ startCustomCollection_args(c, interval, maxDuration)
            \/ startCustomCollection_lock(c, interval, maxDuration)
    \/ startCustomCollection(c)
    \/ endCustomCollection_lock(c) \/ endCustomCollection(c)
    \/ dumpCollection_lock(c) \/ dumpCollection(c)

CollectionThread ==
    \/ thread_lock \/ thread
    \/ pollAll \/ pollNext
    \/ loop_lock \/ loop
    \/ handleMessage_lock
    \/ processCollectionEvent \/ endCustom
    \/ failed_lock \/ failed

\* One caller thread at a time uses the API.
Next ==
    \/ Advance
    \/ Call("c1")
    \/ CollectionThread

Spec == Init /\ [][Next]_vars

\* The service with the intervals and the buffer size of start() drawn from
\* ConfigChoices.
SpecConfig == InitConfig /\ [][Next]_vars

\* The guard message of the running custom collection is pending and not yet due.
TimerPending ==
    \E i \in DOMAIN mMessages :
        mMessages[i].what = END_CUSTOM_COLLECTION /\ mMessages[i].uptime > now

\* The uptime does not stop before the guard of a running custom collection is due.
AdvanceToTimer ==
    /\ ~aborted
    /\ now >= MaxTime
    /\ mCurrCollectionEvent = "CUSTOM"
    /\ TimerPending
    /\ now' = now + 1
    /\ UNCHANGED <<mCurrCollectionEvent, mCollectionThread, infoVars, looperVars, mMutex,
                   envVars, workerVars, callVars, aborted>>

NextFair == Next \/ AdvanceToTimer

\* The uptime advances; the collection thread is scheduled, and gets mMutex when
\* it is free again and again; a caller that holds mMutex goes on to release it.
Fairness ==
    /\ WF_vars(Advance \/ AdvanceToTimer)
    /\ WF_vars(thread \/ pollAll \/ pollNext \/ loop \/ processCollectionEvent
                  \/ endCustom \/ failed)
    /\ SF_vars(thread_lock \/ loop_lock \/ handleMessage_lock \/ failed_lock)
    /\ WF_vars(start("c1") \/ terminate("c1") \/ onBootFinished("c1")
                  \/ startCustomCollection("c1") \/ endCustomCollection("c1")
                  \/ dumpCollection("c1"))

SpecFair == Init /\ [][NextFair]_vars /\ Fairness

\* Two caller threads use the API concurrently.
NextConcurrent ==
    \/ Advance
    \/ \E c \in Callers : Call(c)
    \/ CollectionThread

SpecConcurrent == Init /\ [][NextConcurrent]_vars

\* The steps of a start() call of caller c.
start_call(c) == start_lock(c) \/ start(c) \/ start_thread(c)

\* Two caller threads call start() concurrently; no other call is made.
NextConcurrentStart ==
    \/ Advance
    \/ \E c \in Callers : start_call(c)
    \/ thread_lock \/ thread
    \/ pollAll \/ pollNext
    \/ loop_lock \/ loop
    \/ handleMessage_lock
    \/ processCollectionEvent
    \/ failed_lock \/ failed

SpecConcurrentStart == Init /\ [][NextConcurrentStart]_vars

---------------------------------------------------------------------------
(* percentage, taken on its own.  A double is modelled bit by bit: TLC's     *)
(* integers are too narrow for its significand.                             *)

\* std::numeric_limits<double>::digits: the bits of the significand of a double.
kDoubleDigits == 53

\* The arguments percentage is called with.
MaxNumer == 57
Denominators == {0, 1, 3, 7, 100, 200}

\* A double above 0 is [sig, exp]: sig holds the kDoubleDigits bits of the
\* significand, the leading 1 first, and exp is the exponent of that leading
\* bit.  Overflow and subnormal numbers are out of reach of the arguments.
DoubleZero == [sig |-> <<>>, exp |-> 0]
DoubleInfinity == [sig |-> <<>>, exp |-> 1024]
DoubleNaN == [sig |-> <<1>>, exp |-> 1024]

RECURSIVE Normalized(_, _, _)
\* n / d as (n' / d') * 2^e with d' <= n' < 2 * d'.
Normalized(n, d, e) ==
    IF n < d THEN Normalized(2 * n, d, e - 1)
    ELSE IF n >= 2 * d THEN Normalized(n, 2 * d, e + 1)
    ELSE [n |-> n, d |-> d, e |-> e]

RECURSIVE Remainders(_, _, _)
\* r, then what remains of r / d after 9, 18, ... bits of the binary fraction,
\* k times.
Remainders(r, d, k) ==
    IF k = 0 THEN <<r>> ELSE <<r>> \o Remainders((r * 512) % d, d, k - 1)

\* The first 54 bits of the binary fraction r / d (r < d), nine at a time, and
\* what remains.
FractionBits(r, d) ==
    LET rs == Remainders(r, d, 6)
    IN  [bits |-> [i \in 1..54 |->
                      (((rs[((i - 1) \div 9) + 1] * 512) \div d)
                          \div (2 ^ (8 - ((i - 1) % 9)))) % 2],
         rem |-> rs[7]]

\* bits + 1, for bits with the most significant bit first; one bit longer
\* when every bit is 1.
Incremented(bits) ==
    LET zeros == {i \in DOMAIN bits : bits[i] = 0}
    IN  IF zeros = {}
        THEN <<1>> \o [i \in DOMAIN bits |-> 0]
        ELSE LET last == CHOOSE i \in zeros : \A j \in zeros : j <= i
             IN  [i \in DOMAIN bits |->
                     IF i < last THEN bits[i] ELSE IF i = last THEN 1 ELSE 0]

\* The double above [sig, exp]: one unit in the last place more.
NextUp(x) ==
    LET up == Incremented(x.sig)
    IN  IF Len(up) > kDoubleDigits
        THEN [sig |-> SubSeq(up, 1, kDoubleDigits), exp |-> x.exp + 1]
        ELSE [sig |-> up, exp |-> x.exp]

\* Round to nearest, ties to even: sig are the first kDoubleDigits bits of the
\* exact result, roundBit the next one, sticky whether a later bit is 1.
Rounded(sig, exp, roundBit, sticky) ==
    IF roundBit = 1 /\ (sticky \/ sig[kDoubleDigits] = 1)
    THEN NextUp([sig |-> sig, exp |-> exp])
    ELSE [sig |-> sig, exp |-> exp]

\* static_cast<double>(n) / static_cast<double>(d), d above 0: both casts are
\* exact for arguments below 2^53, so the quotient is n / d rounded once.
Quotient(n, d) ==
    IF n = 0
    THEN DoubleZero
    ELSE LET m == Normalized(n, d, 0)
             f == FractionBits(m.n - m.d, m.d)
         IN  Rounded(<<1>> \o SubSeq(f.bits, 1, kDoubleDigits - 1), m.e,
                     f.bits[kDoubleDigits],
                     f.bits[kDoubleDigits + 1] = 1 \/ f.rem # 0)

\* The number bits spell, the most significant bit first, in base 512, the
\* least significant digit first.
Digits(bits) ==
    LET n == (Len(bits) + 8) \div 9
        bit(i) == IF i < 1 THEN 0 ELSE bits[i]
    IN  [l \in 1..n |->
            LET low == Len(bits) - 9 * (l - 1)
            IN  bit(low) + 2 * bit(low - 1) + 4 * bit(low - 2) + 8 * bit(low - 3)
                + 16 * bit(low - 4) + 32 * bit(low - 5) + 64 * bit(low - 6)
                + 128 * bit(low - 7) + 256 * bit(low - 8)]

RECURSIVE TimesDigits(_, _, _)
\* digits * k + carry in base 512, the least significant digit first; k < 512.
TimesDigits(digits, k, carry) ==
    IF digits = <<>>
    THEN IF carry = 0 THEN <<>> ELSE <<carry>>
    ELSE LET s == Head(digits) * k + carry
         IN  <<s % 512>> \o TimesDigits(Tail(digits), k, s \div 512)

\* The bits of the number digits spell, the most significant bit first, from
\* its leading 1 on.
BitsOf(digits) ==
    LET all == [i \in 1..(9 * Len(digits)) |->
                   (digits[Len(digits) - ((i - 1) \div 9)]
                       \div (2 ^ (8 - ((i - 1) % 9)))) % 2]
        ones == {i \in DOMAIN all : all[i] = 1}
    IN  IF ones = {}
        THEN <<>>
        ELSE SubSeq(all, CHOOSE i \in ones : \A j \in ones : i <= j, Len(all))

\* x * k for a double x and a whole number k below 512 (k as a double is
\* exact): the exact product of the significand, rounded once.
Times(x, k) ==
    IF x = DoubleZero
    THEN DoubleZero
    ELSE LET product == BitsOf(TimesDigits(Digits(x.sig), k, 0))
             dropped == SubSeq(product, kDoubleDigits + 1, Len(product))
         IN  Rounded(SubSeq(product, 1, kDoubleDigits),
                     x.exp + Len(dropped),
                     IF dropped = <<>> THEN 0 ELSE dropped[1],
                     \E i \in 2..Len(dropped) : dropped[i] = 1)

percentage_NoZeroCheck(n, d) ==
    IF d = 0
    THEN IF n = 0 THEN DoubleNaN ELSE DoubleInfinity
    ELSE Times(Quotient(n, d), 100)

\* denom == 0 ? 0.0 : (double(numer) / double(denom)) * 100.0
percentage(n, d) == IF d = 0 THEN DoubleZero ELSE Times(Quotient(n, d), 100)

\* percentage is called with any of the arguments.
InitPercentage ==
    /\ Constructed
    /\ enabled = Collectors
    /\ config = DefaultConfig
    /\ NoTopN
    /\ NoDispatch
    /\ NoResolver
    /\ numer \in 0..MaxNumer
    /\ denom \in Denominators
    /\ percent = <<>>

\* The call of percentage(numer, denom) returns.
percentage_call ==
    /\ percent = <<>>
    /\ percent' = <<percentage(numer, denom)>>
    /\ UNCHANGED <<serviceVars, numer, denom, topNVars, dispatchVars, resolverVars>>

SpecPercentage == InitPercentage /\ [][percentage_call]_vars

---------------------------------------------------------------------------
(* The top-N loops of collectUidIoPerfDataLocked and                        *)
(* collectProcessIoPerfDataLocked, taken on their own.                      *)

\* The most records of a sample, and the largest value of a metric in it.
MaxEntities == 3
MaxMetric == 2
\* The size of every candidate list.
mTopNStatsPerCategory == 2

\* UidIoUsage tempUsage = {}; UidProcessStats temp = {};
tempUsage == [uid |-> 0, readBytes |-> 0, writeBytes |-> 0]
temp == [uid |-> 0, ioBlockedTasksCnt |-> 0, majorFaults |-> 0]

\* What mUidIoStats->collect() can return for n uids: one UidIoUsage per uid,
\* in the order the loop iterates over the unordered_map.  readBytes and
\* writeBytes are ios.sumReadBytes() and ios.sumWriteBytes(); the fsync counts
\* are 0.
UidIoUsages(n) ==
    {[i \in 1..n |-> [uid |-> i, readBytes |-> m[i][1], writeBytes |-> m[i][2]]] :
        m \in [1..n -> (0..MaxMetric) \X (0..MaxMetric)]}

\* What getUidProcessStats can return for n uids, in the order the loop
\* iterates over it.
UidProcessStatsMaps(n) ==
    {[i \in 1..n |-> [uid |-> i, ioBlockedTasksCnt |-> m[i][1], majorFaults |-> m[i][2]]] :
        m \in [1..n -> (0..MaxMetric) \X (0..MaxMetric)]}

\* IoUsage::isZero(): no metric of the usage is above 0.
isZero(ios) == ios.readBytes = 0 /\ ios.writeBytes = 0

\* std::vector<const T*> topN(mTopNStatsPerCategory, &temp)
Candidates(t) == [i \in 1..mTopNStatsPerCategory |-> t]

Insert_Front(topN, cur, key) == <<cur>> \o SubSeq(topN, 1, Len(topN) - 1)

\* The inner loop over a candidate list: at the first slot whose key is not
\* above the key of cur, erase(end() - 1) and emplace(it, &cur).  When it is
\* the last slot, it equals end() after the erase and cur is put at the end.
Insert(topN, cur, key) ==
    LET found == {i \in DOMAIN topN : ~(topN[i][key] > cur[key])}
    IN  IF found = {}
        THEN topN
        ELSE LET it == CHOOSE i \in found : \A j \in found : i <= j
             IN  SubSeq(topN, 1, it - 1) \o <<cur>> \o SubSeq(topN, it, Len(topN) - 1)

\* The slots of topN before the first one that is an end of the conversion.
Before(topN, ends) ==
    IF ends = {}
    THEN topN
    ELSE SubSeq(topN, 1, (CHOOSE i \in ends : \A j \in ends : i <= j) - 1)

\* The conversion loops of collectUidIoPerfDataLocked: break at the first
\* usage that isZero().
ConvertedUsage(topN) == Before(topN, {i \in DOMAIN topN : isZero(topN[i])})

\* The conversion loops of collectProcessIoPerfDataLocked: break at the first
\* stats whose count is 0.
ConvertedStats(topN, key) == Before(topN, {i \in DOMAIN topN : topN[i][key] = 0})

\* One of the two functions is about to iterate over a sample.
InitTopN ==
    /\ Constructed
    /\ enabled = Collectors
    /\ config = DefaultConfig
    /\ NoPercentage
    /\ NoDispatch
    /\ NoResolver
    /\ visited = 0
    /\ data = <<>>
    /\ \/ /\ collector = "UidIoStats"
          /\ \E n \in 0..MaxEntities : usage \in UidIoUsages(n)
          /\ uidProcessStats = <<>>
          /\ topNReads = Candidates(tempUsage)
          /\ topNWrites = Candidates(tempUsage)
          /\ topNIoBlockedUids = <<>>
          /\ topNMajorFaults = <<>>
       \/ /\ collector = "ProcPidStat"
          /\ usage = <<>>
          /\ \E n \in 0..MaxEntities : uidProcessStats \in UidProcessStatsMaps(n)
          /\ topNReads = <<>>
          /\ topNWrites = <<>>
          /\ topNIoBlockedUids = Candidates(temp)
          /\ topNMajorFaults = Candidates(temp)

\* collectUidIoPerfDataLocked: one iteration of for (const auto& uIt : *usage).
collectUidIoPerfData_next ==
    /\ collector = "UidIoStats"
    /\ visited < Len(usage)
    /\ visited' = visited + 1
    /\ LET curUsage == usage[visited + 1]
       IN  IF isZero(curUsage)
           THEN UNCHANGED <<topNReads, topNWrites>>
           ELSE /\ topNReads' = Insert(topNReads, curUsage, "readBytes")
                /\ topNWrites' = Insert(topNWrites, curUsage, "writeBytes")
    /\ UNCHANGED <<serviceVars, percentageVars, dispatchVars, resolverVars, collector,
                   usage, uidProcessStats, topNIoBlockedUids, topNMajorFaults, data>>

\* collectUidIoPerfDataLocked: the two conversion loops.
collectUidIoPerfData_convert ==
    /\ collector = "UidIoStats"
    /\ visited = Len(usage)
    /\ data = <<>>
    /\ data' = <<[topNReads |-> ConvertedUsage(topNReads),
                  topNWrites |-> ConvertedUsage(topNWrites)]>>
    /\ UNCHANGED <<serviceVars, percentageVars, dispatchVars, resolverVars, collector,
                   usage, uidProcessStats, visited, topNReads, topNWrites, topNIoBlockedUids,
                   topNMajorFaults>>

\* collectProcessIoPerfDataLocked: one iteration of
\* for (const auto& it : uidProcessStats).
collectProcessIoPerfData_next ==
    /\ collector = "ProcPidStat"
    /\ visited < Len(uidProcessStats)
    /\ visited' = visited + 1
    /\ LET curStats == uidProcessStats[visited + 1]
       IN  /\ topNIoBlockedUids' = Insert(topNIoBlockedUids, curStats, "ioBlockedTasksCnt")
           /\ topNMajorFaults' = Insert(topNMajorFaults, curStats, "majorFaults")
    /\ UNCHANGED <<serviceVars, percentageVars, dispatchVars, resolverVars, collector,
                   usage, uidProcessStats, topNReads, topNWrites, data>>

\* collectProcessIoPerfDataLocked: the two conversion loops.
collectProcessIoPerfData_convert ==
    /\ collector = "ProcPidStat"
    /\ visited = Len(uidProcessStats)
    /\ data = <<>>
    /\ data' = <<[topNIoBlockedUids |->
                      ConvertedStats(topNIoBlockedUids, "ioBlockedTasksCnt"),
                  topNMajorFaults |-> ConvertedStats(topNMajorFaults, "majorFaults")]>>
    /\ UNCHANGED <<serviceVars, percentageVars, dispatchVars, resolverVars, collector,
                   usage, uidProcessStats, visited, topNReads, topNWrites, topNIoBlockedUids,
                   topNMajorFaults>>

NextTopN ==
    \/ collectUidIoPerfData_next
    \/ collectUidIoPerfData_convert
    \/ collectProcessIoPerfData_next
    \/ collectProcessIoPerfData_convert

SpecTopN == InitTopN /\ [][NextTopN]_vars

---------------------------------------------------------------------------
(* The dispatch of a sample to the data processors (WatchdogPerfService) *)

\* The data processors that can be registered.
Processors == {"p1", "p2", "p3"}

\* The collection callback of IDataProcessorInterface a sample of the event goes to.
CallbackOf(event) ==
    CASE event = "BOOT_TIME" -> "onBoottimeCollection"
      [] event = "PERIODIC" -> "onPeriodicCollection"
      [] event = "CUSTOM" -> "onCustomCollection"

DispatchAborts_OnError(result) == result = "error"

\* An error a processor returns for a sample is logged and skipped: it does not
\* abort the tick.
DispatchAborts(result) == FALSE

\* The service with no processor registered; which processors fail is not known to it.
InitDispatch ==
    /\ Constructed
    /\ enabled = Collectors
    /\ config = DefaultConfig
    /\ NoPercentage
    /\ NoTopN
    /\ NoResolver
    /\ mDataProcessors = <<>>
    /\ failingProcessors \in SUBSET Processors
    /\ dispatch = NoDispatchState

\* registerDataProcessor(processor): the processor joins the end of the list.
registerDataProcessor(p) ==
    /\ dispatch.next = 0
    /\ \A i \in DOMAIN mDataProcessors : mDataProcessors[i] # p
    /\ mDataProcessors' = Append(mDataProcessors, p)
    /\ UNCHANGED <<serviceVars, percentageVars, topNVars, resolverVars, failingProcessors,
                   dispatch>>

\* A tick of the event has collected its sample and starts the fan-out.
dispatch_begin(event) ==
    /\ dispatch.next = 0
    /\ dispatch.result # "terminated"
    /\ dispatch' = [event |-> event, next |-> 1, invoked |-> <<>>, logged |-> <<>>,
                    result |-> "none"]
    /\ UNCHANGED <<serviceVars, percentageVars, topNVars, resolverVars, mDataProcessors,
                   failingProcessors>>

\* The next processor of the list gets the sample through the callback of the event.
dispatch_next ==
    /\ dispatch.next \in DOMAIN mDataProcessors
    /\ LET p == mDataProcessors[dispatch.next]
           result == IF p \in failingProcessors THEN "error" ELSE "ok"
           called == [dispatch EXCEPT
                        !.invoked = Append(@, [processor |-> p,
                                               callback |-> CallbackOf(dispatch.event)]),
                        !.logged = IF result = "error" THEN Append(@, p) ELSE @]
       IN  dispatch' = IF DispatchAborts(result)
                       THEN [called EXCEPT !.next = 0, !.result = "terminated"]
                       ELSE [called EXCEPT !.next = @ + 1]
    /\ UNCHANGED <<serviceVars, percentageVars, topNVars, resolverVars, mDataProcessors,
                   failingProcessors>>

\* Every processor was invoked: the tick completes and is rescheduled.
dispatch_end ==
    /\ dispatch.next = Len(mDataProcessors) + 1
    /\ dispatch' = [dispatch EXCEPT !.next = 0, !.result = "rescheduled"]
    /\ UNCHANGED <<serviceVars, percentageVars, topNVars, resolverVars, mDataProcessors,
                   failingProcessors>>

NextDispatch ==
    \/ \E p \in Processors : registerDataProcessor(p)
    \/ \E event \in CollectionEvents : dispatch_begin(event)
    \/ dispatch_next
    \/ dispatch_end

SpecDispatch == InitDispatch /\ [][NextDispatch]_vars

---------------------------------------------------------------------------
(* The package info resolver (PackageInfoResolver.cpp) *)

\* The first uid of an application (cutils/android_filesystem_config.h).
AID_APP_START == 10000

\* The uids of the model: two native services and one application, the native ones
\* outside the reserved OEM and ODM ranges.
Uids == {1000, 1001, AID_APP_START}

\* How many uids a call asks for at most.
MaxUids == 2

\* A name is the sequence of its parts.
kSharedPackagePrefix == <<"shared:">>

\* The name getpwuid has for a native uid, and the car watchdog service for any uid.
NameOf(uid) ==
    CASE uid = 1000 -> <<"vendor.", "hal">>
      [] uid = 1001 -> <<"shared:", "media">>
      [] OTHER -> <<"com.", "app">>

\* The prefixes a call of setVendorPackagePrefixes can give.
PrefixChoices == {{}, {<<"vendor.">>}}

StartsWith(name, prefix) ==
    Len(prefix) <= Len(name) /\ SubSeq(name, 1, Len(prefix)) = prefix

getComponentTypeForNativeUid(uid, packageName, vendorPackagePrefixes) ==
    IF \E prefix \in vendorPackagePrefixes : StartsWith(packageName, prefix)
    THEN "VENDOR"
    ELSE "SYSTEM"

\* getPackageInfoForNativeUid, when getpwuid knows the uid.
getPackageInfoForNativeUid(uid, vendorPackagePrefixes) ==
    [name |-> NameOf(uid), uid |-> uid, uidType |-> "NATIVE",
     componentType |-> getComponentTypeForNativeUid(uid, NameOf(uid), vendorPackagePrefixes)]

\* A PackageInfo the car watchdog service returns for a uid.
HelperPackageInfo(uid) ==
    [name |-> NameOf(uid), uid |-> uid,
     uidType |-> IF uid >= AID_APP_START THEN "APPLICATION" ELSE "NATIVE",
     componentType |-> "UNKNOWN"]

\* mapping[uid] = info.
Put(mapping, uid, info) ==
    [u \in DOMAIN mapping \cup {uid} |-> IF u = uid THEN info ELSE mapping[u]]

\* The sequences of distinct uids of length n.
UidVectors(n) ==
    {v \in [1..n -> Uids] : \A i, j \in 1..n : i # j => v[i] # v[j]}

Range(v) == {v[i] : i \in DOMAIN v}

\* updatePackageInfos: the loop over the uids, from the i-th on; it returns the
\* mapping and the missing uids.
RECURSIVE UpdateLoop(_, _, _, _)
UpdateLoop(v, i, mapping, missingUids) ==
    IF i > Len(v)
    THEN [mapping |-> mapping, missingUids |-> missingUids]
    ELSE LET uid == v[i]
         IN  IF uid \in DOMAIN mapping
             THEN UpdateLoop(v, i + 1, mapping, missingUids)
             ELSE IF uid >= AID_APP_START \/ uid \notin passwd
             THEN UpdateLoop(v, i + 1, mapping, missingUids \cup {uid})
             ELSE LET result == getPackageInfoForNativeUid(uid, mVendorPackagePrefixes)
                  IN  UpdateLoop(v, i + 1, Put(mapping, uid, result),
                                 IF StartsWith(result.name, kSharedPackagePrefix)
                                 THEN missingUids \cup {uid}
                                 ELSE missingUids)

\* The mapping with the package infos the car watchdog service returned.
RECURSIVE PutAll(_, _)
PutAll(mapping, returned) ==
    IF returned = {}
    THEN mapping
    ELSE LET uid == CHOOSE u \in returned : TRUE
         IN  PutAll(Put(mapping, uid, HelperPackageInfo(uid)), returned \ {uid})

\* The resolver of a running daemon: the helper may be initialized, getpwuid knows
\* some of the native uids, and no thread is in a call.
InitResolver ==
    /\ Constructed
    /\ enabled = Collectors
    /\ config = DefaultConfig
    /\ NoPercentage
    /\ NoTopN
    /\ NoDispatch
    /\ mUidToPackageInfoMapping = <<>>
    /\ mVendorPackagePrefixes = {}
    /\ mWatchdogServiceHelper \in {"null", "helper"}
    /\ mRWMutex = "free"
    /\ passwd \in SUBSET {u \in Uids : u < AID_APP_START}
    /\ rpc = [getter |-> "idle", setter |-> "idle"]
    /\ uids = <<>>
    /\ updated = {}
    /\ uidToPackageNameMapping = <<>>

\* getPackageNamesForUids(uids): with no uid it returns the empty map at once.
getPackageNamesForUids_call(v) ==
    /\ rpc.getter \in {"idle", "returned"}
    /\ uids' = v
    /\ updated' = {}
    /\ IF v = <<>>
       THEN /\ uidToPackageNameMapping' = <<<<>>>>
            /\ rpc' = [rpc EXCEPT !.getter = "returned"]
       ELSE /\ uidToPackageNameMapping' = <<>>
            /\ rpc' = [rpc EXCEPT !.getter = "updatePackageInfos_lock"]
    /\ UNCHANGED <<serviceVars, percentageVars, topNVars, dispatchVars,
                   mUidToPackageInfoMapping, mVendorPackagePrefixes,
                   mWatchdogServiceHelper, mRWMutex, passwd>>

\* updatePackageInfos: std::unique_lock writeLock(mRWMutex).
updatePackageInfos_lock ==
    /\ rpc.getter = "updatePackageInfos_lock"
    /\ mRWMutex = "free"
    /\ mRWMutex' = "getter"
    /\ rpc' = [rpc EXCEPT !.getter = "updatePackageInfos"]
    /\ UNCHANGED <<serviceVars, percentageVars, topNVars, dispatchVars,
                   mUidToPackageInfoMapping, mVendorPackagePrefixes,
                   mWatchdogServiceHelper, passwd, uids, updated,
                   uidToPackageNameMapping>>

\* updatePackageInfos under the lock: the loop, then the call of the car watchdog
\* service for the missing uids, which fails or returns infos for some of them.
updatePackageInfos ==
    /\ rpc.getter = "updatePackageInfos"
    /\ mRWMutex = "getter"
    /\ LET looped == UpdateLoop(uids, 1, mUidToPackageInfoMapping, {})
       IN  IF looped.missingUids = {} \/ mWatchdogServiceHelper = "null"
           THEN mUidToPackageInfoMapping' = looped.mapping
           ELSE \/ mUidToPackageInfoMapping' = looped.mapping
                \/ \E returned \in SUBSET looped.missingUids :
                      mUidToPackageInfoMapping' = PutAll(looped.mapping, returned)
    /\ updated' = Range(uids) \cap DOMAIN mUidToPackageInfoMapping'
    /\ mRWMutex' = "free"
    /\ rpc' = [rpc EXCEPT !.getter = "readLock"]
    /\ UNCHANGED <<serviceVars, percentageVars, topNVars, dispatchVars,
                   mVendorPackagePrefixes, mWatchdogServiceHelper, passwd, uids,
                   uidToPackageNameMapping>>

\* getPackageNamesForUids: std::shared_lock readLock(mRWMutex).
getPackageNamesForUids_lock ==
    /\ rpc.getter = "readLock"
    /\ mRWMutex = "free"
    /\ mRWMutex' = "getter"
    /\ rpc' = [rpc EXCEPT !.getter = "getPackageNamesForUids"]
    /\ UNCHANGED <<serviceVars, percentageVars, topNVars, dispatchVars,
                   mUidToPackageInfoMapping, mVendorPackagePrefixes,
                   mWatchdogServiceHelper, passwd, uids, updated,
                   uidToPackageNameMapping>>

\* getPackageNamesForUids: the read-back of the requested uids, and the return.
getPackageNamesForUids ==
    /\ rpc.getter = "getPackageNamesForUids"
    /\ mRWMutex = "getter"
    /\ uidToPackageNameMapping' =
          <<[uid \in Range(uids) \cap DOMAIN mUidToPackageInfoMapping |->
                mUidToPackageInfoMapping[uid].name]>>
    /\ mRWMutex' = "free"
    /\ rpc' = [rpc EXCEPT !.getter = "returned"]
    /\ UNCHANGED <<serviceVars, percentageVars, topNVars, dispatchVars,
                   mUidToPackageInfoMapping, mVendorPackagePrefixes,
                   mWatchdogServiceHelper, passwd, uids, updated>>

\* setVendorPackagePrefixes: std::unique_lock writeLock(mRWMutex).
setVendorPackagePrefixes_lock ==
    /\ rpc.setter = "idle"
    /\ mRWMutex = "free"
    /\ mRWMutex' = "setter"
    /\ rpc' = [rpc EXCEPT !.setter = "setVendorPackagePrefixes"]
    /\ UNCHANGED <<serviceVars, percentageVars, topNVars, dispatchVars,
                   mUidToPackageInfoMapping, mVendorPackagePrefixes,
                   mWatchdogServiceHelper, passwd, uids, updated,
                   uidToPackageNameMapping>>

\* setVendorPackagePrefixes(prefixes) under the lock: the prefixes are replaced and
\* the cache is cleared.
setVendorPackagePrefixes(prefixes) ==
    /\ rpc.setter = "setVendorPackagePrefixes"
    /\ mRWMutex = "setter"
    /\ mVendorPackagePrefixes' = prefixes
    /\ mUidToPackageInfoMapping' = <<>>
    /\ mRWMutex' = "free"
    /\ rpc' = [rpc EXCEPT !.setter = "idle"]
    /\ UNCHANGED <<serviceVars, percentageVars, topNVars, dispatchVars,
                   mWatchdogServiceHelper, passwd, uids, updated,
                   uidToPackageNameMapping>>

NextResolver ==
    \/ \E n \in 0..MaxUids : \E v \in UidVectors(n) : getPackageNamesForUids_call(v)
    \/ updatePackageInfos_lock
    \/ updatePackageInfos
    \/ getPackageNamesForUids_lock
    \/ getPackageNamesForUids
    \/ setVendorPackagePrefixes_lock
    \/ \E prefixes \in PrefixChoices : setVendorPackagePrefixes(prefixes)

SpecResolver == InitResolver /\ [][NextResolver]_vars

---------------------------------------------------------------------------
(* Properties *)

Records(event) == InfoOf(event).records

\* The last n elements of s (all of s when it has no more than n).
LastN(s, n) == IF Len(s) <= n THEN s ELSE SubSeq(s, Len(s) - n + 1, Len(s))

\* A record was appended to the ring of event in this step.
RecordAppended(event) ==
    /\ Records(event)' # Records(event)
    /\ Records(event)' # <<>>

HoldsMutex(t) ==
    IF t = Worker
    THEN wpc \in {"thread", "loop_locked", "processCollectionEvent", "endCustom",
                  "failed_locked"}
    ELSE pc[t] \in {"start", "terminate", "onBootFinished", "startCustomCollection",
                    "endCustomCollection", "dumpCollection"}

\* No terminate() call has begun to act and no fatal error has terminated the service.
NotTerminating ==
    /\ mCurrCollectionEvent # "TERMINATED"
    /\ \A c \in Callers : CallOf(pc[c]) # "terminate"

PendingWhat == {mMessages[i].what : i \in DOMAIN mMessages}

\* C1: the number of records of every CollectionInfo never exceeds its
\* maxCacheSize, in any state.
C1_RingBound ==
    \A e \in CollectionEvents : Len(Records(e)) <= InfoOf(e).maxCacheSize

\* C2: the ring of every CollectionInfo is the most recent maxCacheSize records
\* collected for it, in collection order.
C2_SlidingWindow ==
    \A e \in CollectionEvents : Records(e) = LastN(history[e], InfoOf(e).maxCacheSize)

\* C3: a record is appended to the ring of an event only in a step that starts
\* and ends with that event being the current one.
C3_AppendOnlyToCurrent ==
    [][\A e \in CollectionEvents :
          (RecordAppended(e) \/ Len(history'[e]) > Len(history[e]))
              => (mCurrCollectionEvent = e /\ mCurrCollectionEvent' = e)]_vars

C3_Witness ==
    /\ mCurrCollectionEvent = "CUSTOM"
    /\ \A e \in CollectionEvents : Len(Records(e)) > 0

\* C4: when the handler of a tick finds the tick's event different from the
\* current one, it returns without an error and changes nothing: no record, no
\* new message, no removed message, no wake, the same mode.
C4_StaleTickDropped ==
    [][(/\ wpc = "processCollectionEvent"
        /\ wpc' # wpc
        /\ curMsg # mCurrCollectionEvent)
          => (/\ wpc' = "polled"
              /\ UNCHANGED <<mCurrCollectionEvent, infoVars, looperVars,
                             mCollectionThread>>)]_vars

C4_Witness ==
    /\ wpc = "polled"
    /\ outcome = "skipped"
    /\ curMsg \in CollectionEvents
    /\ mCurrCollectionEvent \in CollectionEvents \ {curMsg}

\* C5: at most one thread is inside a critical section of mMutex, and it is the
\* thread mMutex records as its holder.
C5_MutualExclusion ==
    /\ Cardinality({t \in Callers \cup {Worker} : HoldsMutex(t)}) <= 1
    /\ \A t \in Callers \cup {Worker} : HoldsMutex(t) <=> mMutex = t

C5_Witness ==
    /\ wpc = "processCollectionEvent"
    /\ curMsg = mCurrCollectionEvent
    /\ mMutex = Worker

\* C6: the current event changes only INIT -> BOOT_TIME (the thread start()
\* created), BOOT_TIME -> PERIODIC (onBootFinished), PERIODIC -> CUSTOM
\* (startCustomCollection), CUSTOM -> PERIODIC (the END_CUSTOM_COLLECTION
\* message) and any -> TERMINATED (terminate, or the handler after an error).
C6_ModeEdges ==
    [][mCurrCollectionEvent' # mCurrCollectionEvent =>
          LET from == mCurrCollectionEvent
              to == mCurrCollectionEvent'
          IN  \/ from = "INIT" /\ to = "BOOT_TIME" /\ wpc = "thread"
              \/ /\ from = "BOOT_TIME" /\ to = "PERIODIC"
                 /\ \E c \in Callers : pc[c] = "onBootFinished" /\ pc'[c] = "idle"
              \/ /\ from = "PERIODIC" /\ to = "CUSTOM"
                 /\ \E c \in Callers : pc[c] = "startCustomCollection" /\ pc'[c] = "idle"
              \/ /\ from = "CUSTOM" /\ to = "PERIODIC"
                 /\ wpc = "endCustom" /\ curMsg = END_CUSTOM_COLLECTION
              \/ /\ to = "TERMINATED"
                 /\ \/ wpc = "failed_locked" /\ wpc' = "polled"
                    \/ \E c \in Callers : pc[c] = "terminate" /\ pc'[c] # "terminate"]_vars

C6_Witness ==
    /\ mCurrCollectionEvent = "TERMINATED"
    /\ customCollections > 0
    /\ mCustomCollection = EmptyInfo
    /\ Len(mPeriodicCollection.records) > 0

\* C7, as claimed: as long as no terminate() is called (and no error terminates
\* the service), the first message the collection thread handles is a
\* BOOT_TIME tick.
C7_FirstHandledIsBootTick ==
    NotTerminating => firstMsg \in {"none", "BOOT_TIME"}

\* C7, amended: the first block of the thread start() created either finds the
\* service terminated and exits, or sets BOOT_TIME and posts one BOOT_TIME tick
\* due at once; nothing else sets BOOT_TIME; while the event is still BOOT_TIME
\* and no message was handled, that tick is the only pending message, is due,
\* and is the first message the thread handles.
C7_StartPostsBootTick ==
    /\ [][/\ (wpc = "thread" /\ wpc' # wpc) =>
                \/ /\ mCurrCollectionEvent = "INIT"
                   /\ mCurrCollectionEvent' = "BOOT_TIME"
                   /\ mMessages' = <<[what |-> "BOOT_TIME", uptime |-> now]>>
                   /\ mBoottimeCollection'.lastCollectionUptime = now
                   /\ wpc' = "epoll"
                \/ /\ mCurrCollectionEvent = "TERMINATED"
                   /\ wpc' = "exited"
                   /\ UNCHANGED <<mCurrCollectionEvent, mMessages>>
          /\ (mCurrCollectionEvent # "BOOT_TIME" /\ mCurrCollectionEvent' = "BOOT_TIME")
                => wpc = "thread"
          /\ (mCurrCollectionEvent = "BOOT_TIME" /\ firstMsg = "none" /\ firstMsg' # "none")
                => firstMsg' = "BOOT_TIME"]_vars
    /\ []((mCurrCollectionEvent = "BOOT_TIME" /\ firstMsg = "none") =>
            /\ mMessages =
                 <<[what |-> "BOOT_TIME", uptime |-> mBoottimeCollection.lastCollectionUptime]>>
            /\ HeadDue)

C7_Witness ==
    /\ mCurrCollectionEvent = "BOOT_TIME"
    /\ firstMsg = "BOOT_TIME"
    /\ Len(mBoottimeCollection.records) = 1
    /\ mBoottimeCollection.lastCollectionUptime = now + kBoottimeCollectionInterval

\* C8: a start() that finds the service already started (its thread created)
\* or the current event not INIT returns INVALID_OPERATION and changes neither
\* the current event, nor a CollectionInfo, nor the looper, nor the thread.
C8_SecondStartRejected ==
    [][\A c \in Callers :
          (/\ pc[c] = "start"
           /\ pc'[c] # "start"
           /\ (mCurrCollectionEvent # "INIT" \/ mCollectionThread # "none"))
             => (/\ ret'[c] = Result("start", "INVALID_OPERATION")
                 /\ pc'[c] = "idle"
                 /\ UNCHANGED <<mCurrCollectionEvent, infoVars, looperVars,
                                mCollectionThread, workerVars, aborted>>)]_vars

C8_Witness ==
    /\ \E c \in Callers : ret[c] = Result("start", "INVALID_OPERATION")
    /\ mCurrCollectionEvent = "BOOT_TIME"
    /\ Len(mBoottimeCollection.records) > 0

\* C9: an onBootFinished() that returns OK leaves the current event PERIODIC
\* and no BOOT_TIME message pending; from then on the event is never INIT or
\* BOOT_TIME again, no BOOT_TIME message is pending and the boot-time
\* CollectionInfo never changes, whatever the thread had dequeued.
C9_NoBootRecordAfterBootFinished ==
    [][/\ \A c \in Callers :
             (pc[c] = "onBootFinished" /\ ret'[c] = Result("onBootFinished", "OK"))
                => (mCurrCollectionEvent' = "PERIODIC" /\ "BOOT_TIME" \notin PendingWhat')
       /\ mCurrCollectionEvent \in {"PERIODIC", "CUSTOM"}
             => "BOOT_TIME" \notin PendingWhat'
       /\ mCurrCollectionEvent \notin {"INIT", "BOOT_TIME"}
             => /\ mCurrCollectionEvent' \notin {"INIT", "BOOT_TIME"}
                /\ UNCHANGED <<mBoottimeCollection, history["BOOT_TIME"]>>]_vars

C9_Witness ==
    /\ wpc = "polled"
    /\ outcome = "skipped"
    /\ curMsg = "BOOT_TIME"
    /\ mCurrCollectionEvent = "PERIODIC"
    /\ \E c \in Callers : ret[c] = Result("onBootFinished", "OK")

\* C10, as claimed: when the current event becomes PERIODIC, every PERIODIC
\* tick then pending is due no earlier than one periodic interval later.
C10_FirstPeriodicTickAfterInterval ==
    [][(mCurrCollectionEvent # "PERIODIC" /\ mCurrCollectionEvent' = "PERIODIC") =>
          \A i \in DOMAIN mMessages' :
              mMessages'[i].what = "PERIODIC" =>
                  mMessages'[i].uptime >= now + kPeriodicCollectionInterval]_vars

\* C10, amended: when the current event becomes PERIODIC, the only pending
\* message is one PERIODIC tick due at once (at the uptime of the switch), and
\* the periodic lastCollectionUptime is that uptime, so that the tick after it
\* is due one periodic interval after the switch.
C10_FirstPeriodicTickAtOnce ==
    [][(mCurrCollectionEvent # "PERIODIC" /\ mCurrCollectionEvent' = "PERIODIC") =>
          /\ mMessages' = <<[what |-> "PERIODIC", uptime |-> now]>>
          /\ mPeriodicCollection'.lastCollectionUptime = now
          /\ mPeriodicCollection'.interval = kPeriodicCollectionInterval]_vars

C10_Witness ==
    /\ mCurrCollectionEvent = "PERIODIC"
    /\ outcome = "switched"
    /\ wpc = "polled"
    /\ now > 0
    /\ mMessages = <<[what |-> "PERIODIC", uptime |-> now]>>
    /\ mPeriodicCollection.lastCollectionUptime = now

\* C11: an onBootFinished() that finds the current event different from
\* BOOT_TIME returns INVALID_OPERATION and changes neither the current event,
\* nor a CollectionInfo (records, lastCollectionUptime), nor the looper.
C11_BootFinishedRejected ==
    [][\A c \in Callers :
          (/\ pc[c] = "onBootFinished"
           /\ pc'[c] # "onBootFinished"
           /\ mCurrCollectionEvent # "BOOT_TIME")
             => (/\ ret'[c] = Result("onBootFinished", "INVALID_OPERATION")
                 /\ UNCHANGED <<mCurrCollectionEvent, infoVars, looperVars,
                                mCollectionThread, workerVars>>)]_vars

C11_Witness ==
    /\ \E c \in Callers : ret[c] = Result("onBootFinished", "INVALID_OPERATION")
    /\ mCurrCollectionEvent = "PERIODIC"
    /\ "PERIODIC" \in PendingWhat
    /\ Len(mBoottimeCollection.records) > 0

\* C12: a startCustomCollection() with valid arguments that finds the current
\* event different from PERIODIC returns INVALID_OPERATION and changes neither
\* the current event, nor a CollectionInfo (the custom one is not reset), nor
\* the looper (no message removed, none posted).
C12_CustomStartRejected ==
    [][\A c \in Callers :
          (/\ pc[c] = "startCustomCollection"
           /\ pc'[c] # "startCustomCollection"
           /\ mCurrCollectionEvent # "PERIODIC")
             => (/\ ret'[c] = Result("startCustomCollection", "INVALID_OPERATION")
                 /\ UNCHANGED <<mCurrCollectionEvent, infoVars, looperVars,
                                mCollectionThread, workerVars, customCollections>>)]_vars

C12_Witness ==
    /\ \E c \in Callers :
          /\ ret[c] = Result("startCustomCollection", "INVALID_OPERATION")
          /\ pc[c] = "idle"
    /\ mCurrCollectionEvent = "CUSTOM"
    /\ Len(mCustomCollection.records) > 0
    /\ END_CUSTOM_COLLECTION \in PendingWhat

\* C13: an endCustomCollection() that finds the current event different from
\* CUSTOM returns INVALID_OPERATION, writes no report and changes neither the
\* current event, nor a CollectionInfo, nor the looper (a pending tick stays).
C13_CustomEndRejected ==
    [][\A c \in Callers :
          (/\ pc[c] = "endCustomCollection"
           /\ pc'[c] # "endCustomCollection"
           /\ mCurrCollectionEvent # "CUSTOM")
             => (/\ ret'[c] = Result("endCustomCollection", "INVALID_OPERATION")
                 /\ UNCHANGED <<mCurrCollectionEvent, infoVars, looperVars,
                                mCollectionThread, workerVars, report>>)]_vars

C13_Witness ==
    /\ \E c \in Callers : ret[c] = Result("endCustomCollection", "INVALID_OPERATION")
    /\ mCurrCollectionEvent = "PERIODIC"
    /\ mMessages # <<>>
    /\ mMessages[1].what = "PERIODIC"

\* C14: a startCustomCollection(interval, maxDuration) that finds the current
\* event PERIODIC returns OK and, in that one step under mMutex, sets the event
\* to CUSTOM, resets the custom CollectionInfo to no records with the given
\* interval, and leaves exactly two messages pending: a CUSTOM tick due at once
\* and the END_CUSTOM_COLLECTION message due at now + maxDuration (the pending
\* PERIODIC tick is gone).
C14_CustomStart ==
    [][\A c \in Callers :
          (/\ pc[c] = "startCustomCollection"
           /\ pc'[c] # "startCustomCollection"
           /\ mCurrCollectionEvent = "PERIODIC")
             => (/\ ret'[c] = Result("startCustomCollection", "OK")
                 /\ mCurrCollectionEvent' = "CUSTOM"
                 /\ mCustomCollection' =
                        [interval |-> args[c][1], maxCacheSize |-> kSizeMax,
                         lastCollectionUptime |-> now, records |-> <<>>]
                 /\ mMessages' =
                        <<[what |-> "CUSTOM", uptime |-> now],
                          [what |-> END_CUSTOM_COLLECTION, uptime |-> now + args[c][2]]>>
                 /\ UNCHANGED <<mBoottimeCollection, mPeriodicCollection>>)]_vars

C14_Witness ==
    /\ \E c \in Callers :
          /\ ret[c] = Result("startCustomCollection", "OK")
          /\ pc[c] = "idle"
    /\ mMessages =
          <<[what |-> "CUSTOM", uptime |-> now],
            [what |-> END_CUSTOM_COLLECTION,
             uptime |-> now + mCustomCollection.interval + kMinCollectionInterval]>>
    /\ mCurrCollectionEvent = "CUSTOM"
    /\ Len(mPeriodicCollection.records) > 0
    /\ mCustomCollection.records = <<>>

\* C15: the handler of the END_CUSTOM_COLLECTION message, when the current
\* event is CUSTOM, clears the custom CollectionInfo (no records), sets the
\* event to PERIODIC and leaves one PERIODIC tick as the only pending message
\* (the pending CUSTOM ticks are gone); when the current event is not CUSTOM
\* it changes nothing and reports no error.
C15_GuardHandled ==
    [][(wpc = "endCustom" /\ wpc' # wpc) =>
          IF mCurrCollectionEvent = "CUSTOM"
          THEN /\ mCustomCollection' = EmptyInfo
               /\ Len(mCustomCollection'.records) = 0
               /\ mCurrCollectionEvent' = "PERIODIC"
               /\ PendingWhat' = {"PERIODIC"}
               /\ Len(mMessages') = 1
               /\ wpc' = "polled"
               /\ UNCHANGED <<mBoottimeCollection, mPeriodicCollection.records>>
          ELSE /\ wpc' = "polled"
               /\ UNCHANGED <<mCurrCollectionEvent, infoVars, looperVars,
                              mCollectionThread>>]_vars

C15_Witness ==
    /\ wpc = "polled"
    /\ outcome = "switched"
    /\ curMsg = END_CUSTOM_COLLECTION
    /\ mCurrCollectionEvent = "PERIODIC"
    /\ mCustomCollection = EmptyInfo
    /\ \E c \in Callers : ret[c] = Result("startCustomCollection", "OK")

\* C16: a custom collection never runs forever: whenever the current event is
\* CUSTOM it is later not CUSTOM, whether or not endCustomCollection() is called,
\* provided the uptime advances and the collection thread is scheduled.
C16_CustomCollectionEnds ==
    (mCurrCollectionEvent = "CUSTOM") ~> (mCurrCollectionEvent # "CUSTOM")

C16_Witness ==
    /\ wpc = "polled"
    /\ outcome = "switched"
    /\ mCurrCollectionEvent = "PERIODIC"
    /\ now > MaxTime
    /\ \E c \in Callers :
          /\ ret[c] = Result("startCustomCollection", "OK")
          /\ pc[c] = "idle"

\* A caller's last call was an endCustomCollection() that returned OK, and the
\* custom collection it ended is still the current event.
EndReturnedOK ==
    /\ mCurrCollectionEvent = "CUSTOM"
    /\ \E c \in Callers :
          pc[c] = "idle" /\ ret[c] = Result("endCustomCollection", "OK")

\* terminate() is being called or was the last call of a caller.
TerminateCalled ==
    \E c \in Callers : CallOf(pc[c]) = "terminate" \/ ret[c].call = "terminate"

\* C17, as claimed: after an endCustomCollection() that returned OK, unless
\* terminate() is called, the current event becomes PERIODIC.
C17_EndLeadsToPeriodic ==
    EndReturnedOK ~> (mCurrCollectionEvent = "PERIODIC" \/ TerminateCalled)

\* C17, amended: an endCustomCollection() that finds the event CUSTOM leaves
\* the END_CUSTOM_COLLECTION message, due at once, as the only pending message
\* and does not itself change the event or a CollectionInfo; when it returns
\* OK the report it wrote holds every record collected so far.  Afterwards
\* the service either terminates (terminate(), or a fatal error of a CUSTOM
\* tick the thread had already dequeued) or the event becomes PERIODIC with the
\* custom CollectionInfo cleared and one PERIODIC tick pending.
C17_EndCustomCollection ==
    /\ [][\A c \in Callers :
             (/\ pc[c] = "endCustomCollection"
              /\ pc'[c] # "endCustomCollection"
              /\ mCurrCollectionEvent = "CUSTOM")
                => (/\ mMessages' = <<[what |-> END_CUSTOM_COLLECTION, uptime |-> now]>>
                    /\ UNCHANGED <<mCurrCollectionEvent, infoVars>>
                    /\ ret'[c].result \in {"OK", "FAILED_TRANSACTION"}
                    /\ ret'[c].result = "OK" =>
                          /\ report'[c] = mCustomCollection.records
                          /\ report'[c] = history["CUSTOM"])]_vars
    /\ EndReturnedOK ~>
          \/ mCurrCollectionEvent = "TERMINATED"
          \/ /\ mCurrCollectionEvent = "PERIODIC"
             /\ mCustomCollection.records = <<>>
             /\ PendingWhat = {"PERIODIC"}

C17_Witness ==
    /\ wpc = "polled"
    /\ outcome = "switched"
    /\ mCurrCollectionEvent = "PERIODIC"
    /\ mCustomCollection = EmptyInfo
    /\ now = 0
    /\ \E c \in Callers :
          /\ pc[c] = "idle"
          /\ ret[c] = Result("endCustomCollection", "OK")
          /\ report[c] # <<>>

\* The thread holds a tick of the current event whose CollectionInfo has
\* maxCacheSize 0 or an interval below kMinCollectionInterval.
BadConfigTick ==
    /\ curMsg \in CollectionEvents
    /\ curMsg = mCurrCollectionEvent
    /\ \/ InfoOf(curMsg).maxCacheSize = 0
       \/ InfoOf(curMsg).interval < kMinCollectionInterval

\* C18: the handler of a tick of the current event whose CollectionInfo has
\* maxCacheSize 0 or an interval below kMinCollectionInterval returns an error
\* without collecting: no record is appended and no message is posted; the
\* handler then takes mMutex again, sets TERMINATED, removes every pending
\* message and wakes the looper.  A ring with such a configuration never holds
\* a record.
C18_ConfigErrorFatal ==
    /\ [][/\ (wpc = "processCollectionEvent" /\ wpc' # wpc /\ BadConfigTick)
                => (/\ wpc' = "failed"
                    /\ UNCHANGED <<mCurrCollectionEvent, infoVars, looperVars>>)
          /\ (wpc = "failed" /\ wpc' # wpc)
                => (/\ wpc' = "failed_locked"
                    /\ UNCHANGED <<mCurrCollectionEvent, infoVars, looperVars>>)
          /\ (wpc = "failed_locked" /\ wpc' # wpc)
                => (/\ mCurrCollectionEvent' = "TERMINATED"
                    /\ mMessages' = <<>>
                    /\ mWake'
                    /\ UNCHANGED infoVars)]_vars
    /\ [](\A e \in CollectionEvents :
            (InfoOf(e).maxCacheSize = 0 \/ InfoOf(e).interval < kMinCollectionInterval)
                => Records(e) = <<>> /\ history[e] = <<>>)

C18_Witness ==
    /\ wpc = "polled"
    /\ outcome = "terminated"
    /\ mCurrCollectionEvent = "TERMINATED"
    /\ curMsg = "PERIODIC"
    /\ mPeriodicCollection.maxCacheSize = 0
    /\ mPeriodicCollection.interval >= kMinCollectionInterval
    /\ mPeriodicCollection.records = <<>>
    /\ Len(mBoottimeCollection.records) > 0
    /\ mMessages = <<>>

\* The thread's handler returns from processCollectionEvent for a tick of the
\* current event.
CurrentTickHandled ==
    /\ wpc = "processCollectionEvent"
    /\ wpc' # wpc
    /\ curMsg \in CollectionEvents
    /\ curMsg = mCurrCollectionEvent

\* C19: when no collector is enabled, the handler of a tick of the current
\* event returns an error without appending a record or posting a message, and
\* the handler then sets TERMINATED and removes every pending message; no
\* ring ever holds a record.
C19_AllDisabledFatal ==
    /\ [][/\ (CurrentTickHandled /\ enabled = {})
                => (/\ wpc' = "failed"
                    /\ UNCHANGED <<mCurrCollectionEvent, infoVars, looperVars>>)
          /\ (enabled = {} /\ wpc \in {"failed", "failed_locked"} /\ wpc' # wpc)
                => (/\ UNCHANGED infoVars
                    /\ wpc = "failed" => wpc' = "failed_locked"
                    /\ wpc = "failed_locked" =>
                          (mCurrCollectionEvent' = "TERMINATED" /\ mMessages' = <<>>))]_vars
    /\ [](enabled = {} =>
            \A e \in CollectionEvents : Records(e) = <<>> /\ history[e] = <<>>)

C19_Witness ==
    /\ enabled = {}
    /\ wpc = "polled"
    /\ outcome = "terminated"
    /\ mCurrCollectionEvent = "TERMINATED"
    /\ curMsg = "PERIODIC"
    /\ mMessages = <<>>
    /\ \A e \in CollectionEvents : Records(e) = <<>>

PendingTicks(event) == {i \in DOMAIN mMessages : mMessages[i].what = event}

\* C22: each successful tick of the current event posts exactly one next tick,
\* due at the uptime the handled tick was scheduled for plus the interval,
\* whatever the uptime the tick ran at: the k-th tick posted since the event
\* was entered at uptime t0 is due at t0 + k * interval.
C22_FixedRateSchedule ==
    /\ [](mCurrCollectionEvent \in CollectionEvents =>
            /\ InfoOf(mCurrCollectionEvent).lastCollectionUptime =
                  entered.uptime + entered.ticks * InfoOf(mCurrCollectionEvent).interval
            /\ Cardinality(PendingTicks(mCurrCollectionEvent)) <= 1
            /\ \A i \in PendingTicks(mCurrCollectionEvent) :
                  mMessages[i].uptime =
                      InfoOf(mCurrCollectionEvent).lastCollectionUptime)
    /\ [][(CurrentTickHandled /\ wpc' = "polled") =>
             /\ entered' = [entered EXCEPT !.ticks = @ + 1]
             /\ InfoOf(curMsg)'.interval = InfoOf(curMsg).interval
             /\ PendingTicks(curMsg) = {}
             /\ Len(mMessages') = Len(mMessages) + 1
             /\ \E i \in DOMAIN mMessages' :
                   mMessages'[i] =
                       [what |-> curMsg,
                        uptime |-> entered.uptime
                                      + entered'.ticks * InfoOf(curMsg).interval]]_vars

C22_Witness ==
    /\ mCurrCollectionEvent = "PERIODIC"
    /\ wpc = "polled"
    /\ outcome = "collected"
    /\ curMsg = "PERIODIC"
    /\ entered = [uptime |-> 0, ticks |-> 1]
    /\ now = 1
    /\ mMessages = <<[what |-> "PERIODIC", uptime |-> kPeriodicCollectionInterval]>>

\* C23: the records of BOOT_TIME and PERIODIC persist across the switches of
\* the event: their rings change only when a tick of their own event, while it
\* is the current one, appends a record (after erasing the oldest one on
\* overflow), so onBootFinished, startCustomCollection, endCustomCollection,
\* the END_CUSTOM_COLLECTION message and terminate leave them as they are; the
\* BOOT_TIME ring holds every record a BOOT_TIME tick appended, one per pass;
\* only the CUSTOM ring is emptied, by the END_CUSTOM_COLLECTION message that
\* ends the custom collection.
C23_RecordsPersist ==
    /\ [](Records("BOOT_TIME") = history["BOOT_TIME"])
    /\ [][/\ \A e \in {"BOOT_TIME", "PERIODIC"} :
                Records(e)' # Records(e) =>
                    /\ CurrentTickHandled
                    /\ curMsg = e
                    /\ \E kept \in {Records(e)} \cup
                                     {Tail(r) : r \in {Records(e)} \ {<<>>}} :
                          Records(e)' = Append(kept, history'[e][Len(history'[e])])
          /\ Len(Records("CUSTOM")') < Len(Records("CUSTOM")) =>
                /\ wpc = "endCustom"
                /\ mCurrCollectionEvent = "CUSTOM"
                /\ mCurrCollectionEvent' = "PERIODIC"
                /\ Records("CUSTOM")' = <<>>]_vars

C23_Witness ==
    /\ mCurrCollectionEvent = "PERIODIC"
    /\ wpc = "polled"
    /\ outcome = "switched"
    /\ Records("BOOT_TIME") = history["BOOT_TIME"]
    /\ Len(Records("BOOT_TIME")) > 0
    /\ Len(Records("PERIODIC")) > 0
    /\ Records("CUSTOM") = <<>>
    /\ Len(history["CUSTOM"]) = 0
    /\ customCollections > 0

\* C24: whenever terminate() has returned, the current event is TERMINATED, no
\* message is pending, and the collection thread, if start() created one, has
\* left its loop.
C24_TerminateReturns ==
    \A c \in Callers :
        ret[c] = Result("terminate", "void") =>
            /\ mCurrCollectionEvent = "TERMINATED"
            /\ mMessages = <<>>
            /\ mCollectionThread # "none" => wpc = "exited"

\* C25: TERMINATED is absorbing.  Once it is the current event, it stays the
\* current event; no CollectionInfo changes and no record is appended, removed
\* or cleared; no message is posted; a message the collection thread had
\* dequeued is skipped; and start, onBootFinished, startCustomCollection and
\* endCustomCollection return INVALID_OPERATION.
C25_TerminatedAbsorbing ==
    [][mCurrCollectionEvent = "TERMINATED" =>
          /\ mCurrCollectionEvent' = "TERMINATED"
          /\ UNCHANGED <<mBoottimeCollection, mPeriodicCollection, mCustomCollection,
                         history>>
          /\ Len(mMessages') <= Len(mMessages)
          /\ \A i \in DOMAIN mMessages' : \E j \in DOMAIN mMessages :
                mMessages'[i] = mMessages[j]
          /\ (wpc \in {"processCollectionEvent", "endCustom"} /\ wpc' # wpc) =>
                (wpc' = "polled" /\ outcome' = "skipped")
          /\ \A c \in Callers :
                (/\ ret'[c] # ret[c]
                 /\ ret'[c].call \in {"start", "onBootFinished", "startCustomCollection",
                                      "endCustomCollection"})
                    => ret'[c].result = "INVALID_OPERATION"]_vars

C25_Witness ==
    /\ mCurrCollectionEvent = "TERMINATED"
    /\ pc["c1"] = "terminate_join"
    /\ wpc = "polled"
    /\ curMsg = "PERIODIC"
    /\ outcome = "skipped"
    /\ mMessages = <<>>
    /\ Len(Records("BOOT_TIME")) > 0
    /\ Records("PERIODIC") = <<>>

\* The records of sample whose key is above 0.
NonZero(sample, key) == {i \in DOMAIN sample : sample[i][key] > 0}

\* No record of the converted list has the key 0, and the list is shorter than
\* mTopNStatsPerCategory exactly when fewer records of sample have a key above 0.
ReportedNonZero(list, key, sample) ==
    /\ \A i \in DOMAIN list : list[i][key] # 0
    /\ Len(list) < mTopNStatsPerCategory
          <=> Cardinality(NonZero(sample, key)) < mTopNStatsPerCategory

\* C26: no converted top-N list (top reads, top writes, top I/O blocked uids,
\* top major faults) holds a record whose value of the ranked metric is 0, and
\* a list is shorter than N exactly when fewer than N records of the sample
\* have a value above 0 for that metric.
C26_NoZeroReported ==
    \A k \in DOMAIN data :
        /\ collector = "UidIoStats" =>
              /\ ReportedNonZero(data[k].topNReads, "readBytes", usage)
              /\ ReportedNonZero(data[k].topNWrites, "writeBytes", usage)
        /\ collector = "ProcPidStat" =>
              /\ ReportedNonZero(data[k].topNIoBlockedUids, "ioBlockedTasksCnt",
                                 uidProcessStats)
              /\ ReportedNonZero(data[k].topNMajorFaults, "majorFaults", uidProcessStats)

\* The keys of topN are in descending order.
Descending(topN, key) ==
    \A i \in 1..(Len(topN) - 1) : topN[i][key] >= topN[i + 1][key]

\* The records of sample the loop has visited.
Visited(sample) == {sample[i] : i \in 1..visited}

\* topN holds the largest keys of seen: every slot is t or a record of seen, no
\* record of seen fills two slots, and no record of seen that is left out has
\* a key above the key of a slot.
HoldsLargest(topN, key, seen, t) ==
    /\ \A i \in DOMAIN topN : topN[i] = t \/ topN[i] \in seen
    /\ \A i, j \in DOMAIN topN : (i # j /\ topN[i] = topN[j]) => topN[i] = t
    /\ \A e \in seen :
          (\A i \in DOMAIN topN : topN[i] # e) =>
              \A i \in DOMAIN topN : topN[i][key] >= e[key]

\* cur takes a slot of topN, the slots after it move down by one and the last
\* slot is dropped.
DisplacesLast(topN, after, cur) ==
    \E it \in DOMAIN topN :
        after = SubSeq(topN, 1, it - 1) \o <<cur>> \o SubSeq(topN, it, Len(topN) - 1)

\* C27: every candidate list has mTopNStatsPerCategory slots at any time, its
\* keys are in descending order after each insertion, a record enters it only
\* by taking a slot while the last slot is dropped, and it holds the largest
\* keys of the records visited so far, hence of the sample when the loop ends.
C27_BoundedInsertion ==
    /\ [](collector = "UidIoStats" =>
            /\ Len(topNReads) = mTopNStatsPerCategory
            /\ Len(topNWrites) = mTopNStatsPerCategory
            /\ Descending(topNReads, "readBytes")
            /\ Descending(topNWrites, "writeBytes")
            /\ HoldsLargest(topNReads, "readBytes", Visited(usage), tempUsage)
            /\ HoldsLargest(topNWrites, "writeBytes", Visited(usage), tempUsage))
    /\ [](collector = "ProcPidStat" =>
            /\ Len(topNIoBlockedUids) = mTopNStatsPerCategory
            /\ Len(topNMajorFaults) = mTopNStatsPerCategory
            /\ Descending(topNIoBlockedUids, "ioBlockedTasksCnt")
            /\ Descending(topNMajorFaults, "majorFaults")
            /\ HoldsLargest(topNIoBlockedUids, "ioBlockedTasksCnt",
                            Visited(uidProcessStats), temp)
            /\ HoldsLargest(topNMajorFaults, "majorFaults", Visited(uidProcessStats),
                            temp))
    /\ [][/\ topNReads' # topNReads =>
                DisplacesLast(topNReads, topNReads', usage[visited + 1])
          /\ topNWrites' # topNWrites =>
                DisplacesLast(topNWrites, topNWrites', usage[visited + 1])
          /\ topNIoBlockedUids' # topNIoBlockedUids =>
                DisplacesLast(topNIoBlockedUids, topNIoBlockedUids',
                              uidProcessStats[visited + 1])
          /\ topNMajorFaults' # topNMajorFaults =>
                DisplacesLast(topNMajorFaults, topNMajorFaults',
                              uidProcessStats[visited + 1])]_vars

C27_Witness ==
    /\ collector = "ProcPidStat"
    /\ Len(uidProcessStats) = 3
    /\ visited = 3
    /\ uidProcessStats[1].majorFaults = 1
    /\ uidProcessStats[2].majorFaults = 1
    /\ uidProcessStats[3].majorFaults = 2
    /\ topNMajorFaults = <<uidProcessStats[3], uidProcessStats[2]>>

\* The double nearest n / d, d above 0.
Nearest(n, d) == Quotient(n, d)

\* C28: percentage(numer, denom) returns 0 when denom is 0 and
\* numer * 100 / denom, as a double, otherwise.
C28_Percentage ==
    \A i \in DOMAIN percent :
        percent[i] = IF denom = 0 THEN DoubleZero ELSE Nearest(numer * 100, denom)

\* C28 (amended): percentage(numer, denom) returns 0 when denom is 0, whatever
\* numer is; otherwise it returns the quotient numer / denom rounded to a
\* double, times 100 and rounded again, which is numer * 100 / denom as a
\* double or the double next to it; percentage(0, 0) is 0 and
\* percentage(50, 200) is 25.
C28_PercentageRounded ==
    \A i \in DOMAIN percent :
        /\ denom = 0 => percent[i] = DoubleZero
        /\ (denom # 0 /\ numer = 0) => percent[i] = DoubleZero
        /\ (denom # 0 /\ numer # 0) =>
              \/ percent[i] = Nearest(numer * 100, denom)
              \/ percent[i] = NextUp(Nearest(numer * 100, denom))
              \/ NextUp(percent[i]) = Nearest(numer * 100, denom)
        /\ (numer = 50 /\ denom = 200) => percent[i] = Nearest(25, 1)

C28_Witness ==
    /\ numer = 57
    /\ denom = 100
    /\ percent # <<>>
    /\ percent[1] # Nearest(57, 1)
    /\ NextUp(percent[1]) = Nearest(57, 1)

\* The three collection infos of the service.
Infos == <<mBoottimeCollection, mPeriodicCollection, mCustomCollection>>

\* C29 as stated: every change of a collection info (interval, maxCacheSize,
\* lastCollectionUptime, records) is a step of the collection thread holding mMutex;
\* the threads calling the API never write these fields.
C29_WorkerOnly == [][Infos' # Infos => mMutex = Worker]_vars

\* C29, amended: every change of a collection info is the step of a thread that
\* holds mMutex and releases it with that step. The records are written by the
\* collection thread only; a caller thread writes the infos in start() (the boot-time
\* and the periodic info), in onBootFinished() (lastCollectionUptime of the periodic
\* info) and in startCustomCollection() (the custom info), and nowhere else.
C29_UnderLock ==
    [][/\ Infos' # Infos => mMutex # "free" /\ mMutex' = "free"
       /\ mMutex \in Callers =>
            /\ \A e \in CollectionEvents : InfoOf(e).records' = InfoOf(e).records
            /\ Infos' # Infos =>
                 \/ /\ pc[mMutex] = "start"
                    /\ mCustomCollection' = mCustomCollection
                 \/ /\ pc[mMutex] = "onBootFinished"
                    /\ mBoottimeCollection' = mBoottimeCollection
                    /\ mCustomCollection' = mCustomCollection
                    /\ mPeriodicCollection' =
                         [mPeriodicCollection EXCEPT !.lastCollectionUptime = now]
                 \/ /\ pc[mMutex] = "startCustomCollection"
                    /\ mBoottimeCollection' = mBoottimeCollection
                    /\ mPeriodicCollection' = mPeriodicCollection]_vars

\* onBootFinished() has returned OK after writing lastCollectionUptime of the periodic
\* info from the caller thread: no periodic pass has run yet, and the boot-time
\* records are those the collection thread wrote.
C29_Witness ==
    /\ ret["c1"] = Result("onBootFinished", "OK")
    /\ mMutex = "free"
    /\ mPeriodicCollection.lastCollectionUptime = 1
    /\ mPeriodicCollection.records = <<>>
    /\ Len(mBoottimeCollection.records) > 0

\* The collection thread is in the middle of a pass: processCollectionEvent has taken
\* mMutex and has not returned.
PassInProgress == wpc = "processCollectionEvent"

InvokedAll(event) ==
    [i \in DOMAIN mDataProcessors |->
        [processor |-> mDataProcessors[i], callback |-> CallbackOf(event)]]

\* C31: when a registered data processor returns an error for a sample, the remaining
\* processors are still invoked for that sample in registration order, the tick
\* completes and is rescheduled, and the service does not become terminated.
C31_ProcessorErrorSkipped ==
    /\ [](/\ dispatch.result # "terminated"
          /\ dispatch.next > 0 =>
               dispatch.invoked = SubSeq(InvokedAll(dispatch.event), 1, dispatch.next - 1)
          /\ \A i \in DOMAIN dispatch.logged : dispatch.logged[i] \in failingProcessors)
    /\ [][dispatch.next > 0 /\ dispatch'.next = 0 =>
            /\ dispatch'.result = "rescheduled"
            /\ dispatch'.invoked = InvokedAll(dispatch.event)]_vars

\* The first of three processors returned an error for a periodic sample: the other
\* two were invoked after it and the tick was rescheduled.
C31_Witness ==
    /\ Len(mDataProcessors) = 3
    /\ dispatch.event = "PERIODIC"
    /\ dispatch.result = "rescheduled"
    /\ dispatch.logged = <<mDataProcessors[1]>>
    /\ Len(dispatch.invoked) = 3

\* C32 as stated: an onBootFinished() issued after start() returned success (the
\* collection thread exists), with no terminate() and no fatal error in between,
\* never fails because the event is still INIT.
C32_BootFinishedAfterStart ==
    (/\ pc["c1"] = "idle"
     /\ ret["c1"] = Result("onBootFinished", "INVALID_OPERATION")
     /\ mCollectionThread = "running") => mCurrCollectionEvent # "INIT"

\* C32, amended: start() returns success when it has created the collection thread,
\* and the event becomes BOOT_TIME in the first block of that thread: while the
\* event is INIT after a successful start() the thread has not run that block.
\* onBootFinished() succeeds exactly when it finds the event BOOT_TIME; issued
\* before the thread's first block it fails with INVALID_OPERATION and changes
\* neither the event nor the pending messages.
C32_BootFinishedNeedsThread ==
    /\ []((mCollectionThread = "running" /\ mCurrCollectionEvent = "INIT") =>
              wpc \in {"created", "thread"})
    /\ []((pc["c1"] = "idle" /\ ret["c1"] = Result("start", "OK")) =>
              /\ mCollectionThread = "running"
              /\ mCurrCollectionEvent \in {"INIT", "BOOT_TIME", "TERMINATED"})
    /\ [][(pc["c1"] = "onBootFinished" /\ pc'["c1"] = "idle") =>
            IF mCurrCollectionEvent = "BOOT_TIME"
            THEN /\ ret'["c1"] = Result("onBootFinished", "OK")
                 /\ mCurrCollectionEvent' = "PERIODIC"
            ELSE /\ ret'["c1"] = Result("onBootFinished", "INVALID_OPERATION")
                 /\ mCurrCollectionEvent' = mCurrCollectionEvent
                 /\ mMessages' = mMessages]_vars

\* onBootFinished() was rejected after start() had created the thread, whose first
\* block has since set the event BOOT_TIME: the boot-time collection goes on.
C32_Witness ==
    /\ pc["c1"] = "idle"
    /\ ret["c1"] = Result("onBootFinished", "INVALID_OPERATION")
    /\ mCollectionThread = "running"
    /\ mCurrCollectionEvent = "BOOT_TIME"
    /\ Len(mBoottimeCollection.records) > 0

\* C33 as stated: once endCustomCollection() has returned success (and the service
\* was not terminated) the event is PERIODIC again, so that a startCustomCollection()
\* with valid arguments passes its check.
C33_EndReturnsInPeriodic ==
    (/\ pc["c1"] = "idle"
     /\ ret["c1"] = Result("endCustomCollection", "OK")
     /\ mCurrCollectionEvent # "TERMINATED") => CustomStartAllowed

\* C33, amended: endCustomCollection() returns success with the event still CUSTOM
\* and the END_CUSTOM_COLLECTION message posted; the event is PERIODIC again when the
\* collection thread has handled that message. startCustomCollection() with valid
\* arguments succeeds exactly when it finds the event PERIODIC: issued before the
\* switch was handled it fails with INVALID_OPERATION and changes nothing.
C33_StartCustomNeedsSwitch ==
    /\ [][(pc["c1"] = "endCustomCollection" /\ ret'["c1"].result = "OK") =>
            /\ mCurrCollectionEvent' = "CUSTOM"
            /\ mMessages' = <<[what |-> END_CUSTOM_COLLECTION, uptime |-> now]>>]_vars
    /\ [][(mCurrCollectionEvent = "CUSTOM" /\ mCurrCollectionEvent' = "PERIODIC") =>
            (wpc = "endCustom" /\ curMsg = END_CUSTOM_COLLECTION)]_vars
    /\ [][(pc["c1"] = "startCustomCollection" /\ pc'["c1"] = "idle") =>
            IF mCurrCollectionEvent = "PERIODIC"
            THEN /\ ret'["c1"] = Result("startCustomCollection", "OK")
                 /\ mCurrCollectionEvent' = "CUSTOM"
            ELSE /\ ret'["c1"] = Result("startCustomCollection", "INVALID_OPERATION")
                 /\ mCurrCollectionEvent' = mCurrCollectionEvent
                 /\ mMessages' = mMessages
                 /\ mCustomCollection' = mCustomCollection]_vars

\* startCustomCollection() was rejected while the switch message of an
\* endCustomCollection() was still pending (at uptime 0 no guard message is due).
C33_Witness ==
    /\ pc["c1"] = "idle"
    /\ ret["c1"] = Result("startCustomCollection", "INVALID_OPERATION")
    /\ mCurrCollectionEvent = "CUSTOM"
    /\ now = 0
    /\ mMessages = <<[what |-> END_CUSTOM_COLLECTION, uptime |-> 0]>>
    /\ customCollections = 1

\* The last call of the caller was an endCustomCollection() that returned success.
EndReturned == pc["c1"] = "idle" /\ ret["c1"] = Result("endCustomCollection", "OK")

\* The switch to PERIODIC is pending in the queue, or dequeued and not yet handled.
SwitchPending ==
    \/ \E i \in DOMAIN mMessages : mMessages[i].what = END_CUSTOM_COLLECTION
    \/ curMsg = END_CUSTOM_COLLECTION /\ wpc \in {"handleMessage", "endCustom"}

\* C34 as stated: once endCustomCollection() has returned success no further custom
\* pass runs: no record is appended to the custom collection after the report, even
\* if the collection thread had dequeued a CUSTOM tick before the call.
C34_NoPassAfterEnd ==
    [][EndReturned => Len(Records("CUSTOM")') <= Len(Records("CUSTOM"))]_vars

\* C34, amended: after endCustomCollection() has returned success the event stays
\* CUSTOM until the collection thread handles the switch message, and until then
\* custom passes can still run: the pass of a tick the thread had dequeued before
\* the call, and of the ticks such a pass reschedules for an uptime before that of
\* the switch message.  Records are appended to the custom collection only by a
\* CUSTOM tick handled while the event is CUSTOM; the switch empties the custom
\* collection, records appended after the report included, and leaves no CUSTOM
\* tick pending.
C34_PassesUntilSwitch ==
    /\ []((EndReturned /\ mCurrCollectionEvent = "CUSTOM") =>
            /\ SwitchPending
            /\ \A i, j \in DOMAIN mMessages :
                  (i < j /\ mMessages[i].what = "CUSTOM"
                     /\ mMessages[j].what = END_CUSTOM_COLLECTION) =>
                        mMessages[i].uptime < mMessages[j].uptime)
    /\ [][Len(Records("CUSTOM")') > Len(Records("CUSTOM")) =>
            /\ mCurrCollectionEvent = "CUSTOM"
            /\ wpc = "processCollectionEvent"
            /\ curMsg = "CUSTOM"]_vars
    /\ [][(mCurrCollectionEvent = "CUSTOM" /\ mCurrCollectionEvent' = "PERIODIC") =>
            /\ mCustomCollection' = EmptyInfo
            /\ \A i \in DOMAIN mMessages' : mMessages'[i].what # "CUSTOM"]_vars

\* The report of endCustomCollection() was empty, and a custom pass has run since:
\* the custom collection holds a record the report does not.
C34_Witness ==
    /\ EndReturned
    /\ report["c1"] = <<>>
    /\ mCurrCollectionEvent = "CUSTOM"
    /\ Len(Records("CUSTOM")) = 1
    /\ SwitchPending

\* The positions of the queue that hold a collection tick.
PendingTickPositions == {i \in DOMAIN mMessages : mMessages[i].what \in CollectionEvents}

\* The collection thread has dequeued a message and its handler has not returned.
InHand == wpc \in {"handleMessage", "processCollectionEvent", "endCustom"}

\* C35: the queue holds at most one pending collection tick, and while the event is
\* BOOT_TIME or PERIODIC it holds no CUSTOM tick and no END_CUSTOM_COLLECTION
\* message, nor has the collection thread one in hand: nothing of an earlier custom
\* collection is left to feed or end a later one.
C35_NoLeftOverMessages ==
    /\ Cardinality(PendingTickPositions) <= 1
    /\ mCurrCollectionEvent \in {"BOOT_TIME", "PERIODIC"} =>
         /\ \A i \in DOMAIN mMessages :
               mMessages[i].what \notin {"CUSTOM", END_CUSTOM_COLLECTION}
         /\ InHand => curMsg \notin {"CUSTOM", END_CUSTOM_COLLECTION}

\* A custom collection was ended by its guard or by endCustomCollection(): the event
\* is PERIODIC again, with the PERIODIC tick the only message.
C35_Witness ==
    /\ mCurrCollectionEvent = "PERIODIC"
    /\ customCollections = 1
    /\ outcome = "switched"
    /\ Cardinality(PendingTickPositions) = 1
    /\ Len(mMessages) = 1

\* C36: startCustomCollection() with an interval or a maximum duration below
\* kMinCollectionInterval is rejected before any state change, so while the event is
\* CUSTOM the custom collection has an interval of at least kMinCollectionInterval
\* and a maximum cache size above 0, and the configuration check of a CUSTOM tick
\* never fails.
C36_CustomConfigValid ==
    /\ [](mCurrCollectionEvent = "CUSTOM" =>
            /\ mCustomCollection.interval >= kMinCollectionInterval
            /\ mCustomCollection.maxCacheSize > 0
            /\ ~ConfigError(mCustomCollection))
    /\ []((InHand /\ curMsg = "CUSTOM" /\ EventIsCurrent("CUSTOM")) =>
            ~ConfigError(InfoOf(curMsg)))
    /\ [][\A c \in Callers :
            (ret'[c] = InvalidArguments /\ ret[c] # InvalidArguments) =>
               UNCHANGED <<mCurrCollectionEvent, mCollectionThread, infoVars, looperVars,
                           mMutex, workerVars, pc, customCollections>>]_vars

\* A custom collection started with valid arguments runs and has collected; a
\* startCustomCollection() with an argument below the minimum was rejected since.
C36_Witness ==
    /\ mCurrCollectionEvent = "CUSTOM"
    /\ Len(mCustomCollection.records) > 0
    /\ mCustomCollection.interval = kMinCollectionInterval
    /\ ret["c1"] = InvalidArguments

\* C37: endCustomCollection() called while the event is CUSTOM removes the pending
\* CUSTOM tick and guard message and posts END_CUSTOM_COLLECTION before it writes the
\* report: the switch is posted, and the custom collection ends, also when writing
\* the report fails and the call returns FAILED_TRANSACTION.
C37_EndedThoughReportFails ==
    /\ [][(pc["c1"] = "endCustomCollection" /\ pc'["c1"] = "idle"
             /\ mCurrCollectionEvent = "CUSTOM") =>
            /\ ret'["c1"].result \in {"OK", "FAILED_TRANSACTION"}
            /\ mMessages' = <<[what |-> END_CUSTOM_COLLECTION, uptime |-> now]>>
            /\ ret'["c1"].result = "FAILED_TRANSACTION" => report'["c1"] = <<>>]_vars
    /\ []((/\ pc["c1"] = "idle"
           /\ ret["c1"] = Result("endCustomCollection", "FAILED_TRANSACTION")
           /\ mCurrCollectionEvent = "CUSTOM") => SwitchPending)

\* The report of endCustomCollection() could not be written, and the collection
\* thread has since handled the switch: the custom collection is over.
C37_Witness ==
    /\ pc["c1"] = "idle"
    /\ ret["c1"] = Result("endCustomCollection", "FAILED_TRANSACTION")
    /\ mCurrCollectionEvent = "PERIODIC"
    /\ outcome = "switched"
    /\ now = 0
    /\ mCustomCollection = EmptyInfo

\* The callers whose start() has returned success.
StartSucceeded == {c \in Callers : pc[c] = "idle" /\ ret[c] = Result("start", "OK")}

\* C38: for every interleaving of two start() calls made from different threads, at
\* most one returns success, no second collection thread is created (the program
\* does not assign a second std::thread to mCollectionThread), and once both have
\* returned the other one has returned INVALID_OPERATION.
C38_OneStartSucceeds ==
    /\ Cardinality(StartSucceeded) <= 1
    /\ ~aborted
    /\ (\A c \in Callers : pc[c] = "idle" /\ ret[c].call = "start") =>
          \E c \in Callers :
             /\ ret[c] = Result("start", "OK")
             /\ \A d \in Callers \ {c} : ret[d] = Result("start", "INVALID_OPERATION")

\* C39: a fatal error of a tick terminates the service from the collection thread
\* without joining it: the handler takes mMutex, sets TERMINATED, removes the pending
\* messages and wakes the looper; the thread then leaves its loop, and a terminate()
\* called afterwards returns (it finds TERMINATED) instead of waiting for the thread.
C39_FatalErrorTerminates ==
    /\ [][(wpc = "failed_locked" /\ wpc' # wpc) =>
            /\ mCurrCollectionEvent' = "TERMINATED"
            /\ mMessages' = <<>>
            /\ mWake'
            /\ mCollectionThread' = mCollectionThread]_vars
    /\ (wpc = "failed") ~> (wpc = "exited")
    /\ (pc["c1"] = "terminate" /\ outcome = "terminated") ~>
          (pc["c1"] = "idle" /\ ret["c1"] = Result("terminate", "void"))

\* After a fatal error the thread has left its loop without being joined, and a
\* terminate() called since has returned.
C39_Witness ==
    /\ wpc = "exited"
    /\ mCollectionThread = "running"
    /\ mCurrCollectionEvent = "TERMINATED"
    /\ pc["c1"] = "idle"
    /\ ret["c1"] = Result("terminate", "void")
    /\ firstMsg = "BOOT_TIME"

\* C40: the map getPackageNamesForUids(uids) returns has an entry for every requested
\* uid that was in the cache when its own updatePackageInfos returned, whatever a
\* concurrent setVendorPackagePrefixes() does, and no entry for a uid that was not
\* requested.
C40_AtomicLookup ==
    (rpc.getter = "returned" /\ uids # <<>>) =>
        /\ updated \subseteq DOMAIN uidToPackageNameMapping[1]
        /\ DOMAIN uidToPackageNameMapping[1] \subseteq Range(uids)

=============================================================================
